---- MODULE Spec2Model ----
(***************************************************************************)
(* Interceptor framework of harshabose/serve: the encryption interceptor   *)
(* (pkg/interceptor/encrypt), its lock discipline and handshake handlers,  *)
(* and the Bind / UnBind / Close lifecycle of the room, ping-pong and log  *)
(* interceptors.                                                           *)
(*                                                                         *)
(* Cryptography is modelled symbolically: a private key is a small number, *)
(* its public key is its successor (0 stands for 32 zero bytes), X25519 is *)
(* the unordered pair of the two private keys, HKDF yields two keys tagged *)
(* 1 and 2 over (shared, salt, info), and AES-GCM Open succeeds exactly on *)
(* the key, nonce and associated data the ciphertext was sealed with.      *)
(***************************************************************************)
EXTENDS Integers, FiniteSets, Sequences, TLC

\* ---------------------------------------------------------------- bounds
MaxKey == 1        \* private keys drawn from rand.Reader are 1..MaxKey
MaxSalt == 1       \* salts drawn from rand.Reader are 1..MaxSalt
MaxSession == 2    \* session ids drawn are 1..MaxSession; 0 is the zero value
MaxChain == 3      \* a Registry holds at most MaxChain factories
MaxTTL == 2        \* CloseTime of a room is 1..MaxTTL; the time that passes, 0..MaxTTL
MaxHistory == 3    \* WithMaxHistory is given 0..MaxHistory
MaxMsg == 2        \* MessageID values and timestamps of pings and pongs are 1..MaxMsg

\* ------------------------------------------------------------- universe
Conns == {"c1", "c2"}          \* interceptor.Connection values (map keys)
Link == "c1"                   \* the connection whose handlers are driven directly
IDs == {"a", "b"}              \* NoOpInterceptor.ID values a factory may be given
ID == "a"                      \* NoOpInterceptor.ID of the interceptor under study
PeerID == "b"                  \* SenderID carried by the envelopes of its peer
RoomIDs == {"R"}               \* RoomID values of the room payloads

ZeroPub == 0                   \* a PublicKey left at its zero value (32 zero bytes)
\* curve25519.ScalarBaseMult: the public key of private key k
ScalarBaseMult(k) == k + 1

VARIABLES
    isServer,  \* encrypt.Interceptor.isServer (the WithServer option)
    states,    \* states[c]: encrypt.Interceptor.states, the per-connection state
    mutex,     \* who holds encrypt.Interceptor.Mutex
    stuck,     \* goroutines blocked for ever inside the interceptor, and where
    last,      \* the last call into the interceptor: its inputs and what it did
    aux,       \* state maps of the room, ping-pong and log interceptors
    hist,      \* hist[I][c]: Bind(c) on I completed, no UnBind(c) or Close since
    hs,        \* two encryption interceptors joined by one in-memory link
    chain      \* interceptor.Registry, the Chain it builds, and the chain's last call

vars == <<isServer, states, mutex, stuck, last, aux, hist, hs, chain>>

\* ------------------------------------------------------------ key model
NoKey == [half |-> 0, lo |-> 0, hi |-> 0, salt |-> 0, info |-> ""]

\* curve25519.X25519(priv, pub): commutative in the two private keys
X25519(priv, pub) ==
    LET other == pub - 1
    IN  IF priv <= other THEN <<priv, other>> ELSE <<other, priv>>

\* a verifier that accepts every signature
VerifyAny(p) == TRUE

\* ed25519.Verify(ServerPublicKey, pubKey || salt, signature), with
\* ServerPublicKey a 32-byte key: sigOK says whether the signature the
\* payload carries verifies under it
Verify(p) == p.sigOK

\* derive: HKDF-SHA256(shared, salt, info), first and second 32 bytes
derive(shared, salt, info) ==
    << [half |-> 1, lo |-> shared[1], hi |-> shared[2], salt |-> salt, info |-> info],
       [half |-> 2, lo |-> shared[1], hi |-> shared[2], salt |-> salt, info |-> info] >>

\* ----------------------------------------------------- per-connection state
NoState ==
    [exists |-> FALSE, peerID |-> "", privKey |-> 0, salt |-> 0,
     encKey |-> NoKey, decKey |-> NoKey, sessionID |-> 0, writer |-> ""]

\* the state BindSocketConnection stores; w is the writer it was handed
NewState(w) ==
    [exists |-> TRUE, peerID |-> "unknown", privKey |-> 0, salt |-> 0,
     encKey |-> NoKey, decKey |-> NoKey, sessionID |-> 0, writer |-> w]

\* AES256.SetKeys
SetKeys(st, encryptKey, decryptKey) ==
    [st EXCEPT !.encKey = encryptKey, !.decKey = decryptKey]

\* AES256.SetSessionID
SetSessionID(st, id) == [st EXCEPT !.sessionID = id]

\* AES256.Ready
Ready(st) == st.encKey # NoKey /\ st.decKey # NoKey /\ st.sessionID # 0

\* ------------------------------------------------------------- mutex
Free == <<"free", "">>
Dead == <<"dead", "">>       \* held by a goroutine that will never release it
Reading(c) == <<"rd", c>>    \* held by c's reader, blocked in the inner Read

\* ------------------------------------------------------- payloads, decoding
ProtocolMessage == "encrypt-message"
ProtocolInit == "encrypt-init"
ProtocolResponse == "encrypt-response"
ProtocolInitDone == "encrypt-done"
ProtocolUpdateSession == "encrypt-update-session"
NoneProtocol == "none"

\* the protocol registry of the encryption interceptor
protocolMap ==
    {ProtocolMessage, ProtocolInit, ProtocolResponse, ProtocolInitDone,
     ProtocolUpdateSession}

\* a ciphertext remembers what it was sealed with and whether it is intact
NoCt == [key |-> NoKey, ad |-> 0, intact |-> FALSE]

\* a decoded payload: the embedded BaseMessage (sender) and the fields the
\* concrete type adds to it (PublicKey, Signature, Salt, SessionID, Nonce)
Payload(kind, sender, pub, sigOK, salt, sid, nonce, ct) ==
    [kind |-> kind, sender |-> sender, pub |-> pub, sigOK |-> sigOK,
     salt |-> salt, sid |-> sid, nonce |-> nonce, ct |-> ct]

\* a ProtocolUnmarshal that takes every protocol tag as registered
ProtocolUnmarshalAny(env) ==
    [ok |-> env.body = "json",
     p  |-> [kind |-> env.tag, sender |-> env.sender, pub |-> 0, sigOK |-> FALSE,
             salt |-> 0, sid |-> 0, nonce |-> "", ct |-> env.ct]]

\* message.ProtocolUnmarshal(protocolMap, header.Protocol, payload): the
\* registry's instance is filled by BaseMessage.Unmarshal, which decodes the
\* header and payload of the embedded BaseMessage only; the fields of the
\* concrete type are not decoded and keep their zero values.
ProtocolUnmarshal(env) ==
    [ok |-> env.tag \in protocolMap /\ env.body = "json",
     p  |-> Payload(env.tag, env.sender, ZeroPub, FALSE, 0, 0, "", env.ct)]

\* cipher.AEAD.Open(nonce, ciphertext, sessionID) under decKey
Open(decKey, nonce, ct, ad) ==
    ct.key = decKey /\ ct.ad = ad /\ nonce = "n" /\ ct.intact

\* AES256.Decrypt: "" when the payload was opened, else the error
Decrypt(st, p) ==
    IF ~Ready(st) THEN "encryption not ready"
    ELSE IF p.nonce = "" THEN "invalid nonce"
    ELSE IF ~Open(st.decKey, p.nonce, p.ct, st.sessionID) THEN "decryption failed"
    ELSE ""

\* AES256.Encrypt: the error, or the EncryptedMessage sealed under sessionID.
\* m.Marshal() fails for an envelope whose payload is not valid JSON.
Encrypt(st, marshalOK) ==
    IF ~Ready(st) THEN [err |-> "encryption not ready", ad |-> 0]
    ELSE IF ~marshalOK THEN [err |-> "failed to marshal message", ad |-> 0]
    ELSE [err |-> "", ad |-> st.sessionID]

\* ------------------------------------------------- handlers (payload.Process)
\* The outcome of a Process call on the state st of its connection:
\*   st    the state afterwards
\*   err   the error returned, "" for nil
\*   block where the goroutine blocks for ever ("" if it returns); every such
\*         place is reached with the interceptor Mutex held
\*   emit  the kind of envelope handed to the transport, "" if none
Outcome(st, err, block, emit) ==
    [st |-> st, err |-> err, block |-> block, emit |-> emit]

\* state.writer.Write from inside a handler that holds Mutex: the writer a
\* Chain hands to Bind contains this interceptor's own InterceptSocketWriter,
\* which locks Mutex again; a base writer reaches the transport.
WriteHeld(st, kind, at) ==
    IF st.writer = "chain"
    THEN Outcome(st, "", at, "")
    ELSE Outcome(st, "", "", kind)

\* Init.Process; held: the caller (the reader wrapper) already holds Mutex;
\* k: the private key drawn from rand.Reader
Init_Process(id, st, p, held, k) ==
    IF ~Verify(p) THEN Outcome(st, "signature verification failed", "", "")
    ELSE IF held THEN Outcome(st, "", "Init.Process: Mutex.Lock", "")
    ELSE IF ~st.exists THEN Outcome(st, "connection not registered", "", "")
    ELSE LET st1 == [st EXCEPT !.privKey = k, !.peerID = p.sender, !.salt = p.salt]
         IN  IF p.pub = ZeroPub
             THEN Outcome(st1, "failed to compute shared secret", "", "")
             ELSE LET keys == derive(X25519(k, p.pub), st1.salt, id)
                      st2 == SetSessionID(SetKeys(st1, keys[1], keys[2]), p.sid)
                  IN  WriteHeld(st2, ProtocolResponse,
                                "Init.Process: state.writer.Write: Mutex.Lock")

\* InitResponse.Process
InitResponse_Process(id, st, p, held) ==
    IF held THEN Outcome(st, "", "InitResponse.Process: Mutex.Lock", "")
    ELSE IF ~st.exists THEN Outcome(st, "connection not registered", "", "")
    ELSE LET st1 == [st EXCEPT !.peerID = p.sender]
         IN  IF p.pub = ZeroPub
             THEN Outcome(st1, "bad input point", "", "")
             ELSE LET keys == derive(X25519(st1.privKey, p.pub), st1.salt, id)
                      \* decKey, encKey, err := derive(...)   (keys reversed)
                      st2 == SetKeys(st1, keys[2], keys[1])
                  IN  \* select { case initDone <- : default: }: initDone is
                      \* never made, the send on the nil channel is skipped
                      WriteHeld(st2, ProtocolInitDone,
                                "InitResponse.Process: state.writer.Write: Mutex.Lock")

\* InitDone.Process: after the non-blocking select comes an unconditional
\* send on initDone, a channel no one makes and no one receives from here
InitDone_Process(st, held) ==
    IF held THEN Outcome(st, "", "InitDone.Process: Mutex.Lock", "")
    ELSE IF ~st.exists THEN Outcome(st, "connection not registered", "", "")
    ELSE Outcome(st, "", "InitDone.Process: state.initDone <- struct{}{}", "")

\* UpdateSession.Process (takes no lock)
UpdateSession_Process(srv, st, p) ==
    IF srv THEN Outcome(st, "invalid request to server", "", "")
    ELSE IF ~st.exists THEN Outcome(st, "connection not registered", "", "")
    ELSE Outcome(SetSessionID(st, p.sid), "", "", "")

\* EncryptedMessage.Process (takes no lock)
EncryptedMessage_Process(st, p) ==
    IF ~st.exists THEN Outcome(st, "connection not registered", "", "")
    ELSE Outcome(st, Decrypt(st, p), "", "")

\* payload.Process(i, connection), dispatched on the payload's type
Process(srv, id, st, p, held, k) ==
    CASE p.kind = ProtocolInit -> Init_Process(id, st, p, held, k)
      [] p.kind = ProtocolResponse -> InitResponse_Process(id, st, p, held)
      [] p.kind = ProtocolInitDone -> InitDone_Process(st, held)
      [] p.kind = ProtocolUpdateSession -> UpdateSession_Process(srv, st, p)
      [] OTHER -> EncryptedMessage_Process(st, p)

\* ------------------------------------------------------------ call records
\* what a call handed to the writer below it (the transport's side)
Frame(kind, tag, sealed, ad) ==
    [kind |-> kind, tag |-> tag, sealed |-> sealed, ad |-> ad]

NoFrame == Frame("", "", FALSE, 0)

\* NewInitMessage, NewInitResponseMessage, NewInitDoneMessage: the envelope's
\* Header.Protocol is message.NoneProtocol, whatever the type's Protocol() is
HandshakeFrame(kind) ==
    IF kind = "" THEN NoFrame ELSE Frame(kind, NoneProtocol, FALSE, 0)

\* inputs of a call: payload kind or inbound tag, signature validity, the
\* session id an UpdateSession carries, and ok (Marshal succeeds / body
\* decodes / ciphertext intact)
In(kind, sigOK, sid, ok) ==
    [kind |-> kind, sigOK |-> sigOK, sid |-> sid, ok |-> ok]

NoIn == In("", FALSE, 0, TRUE)

\* results of a call: error returned, error of payload.Process, what a reader
\* hands to the layer above ("" nothing, "m" the envelope as read, "payload"
\* payload.Message()), and the frame handed to the writer below
Out(err, procErr, up, fwd) ==
    [err |-> err, procErr |-> procErr, up |-> up, fwd |-> fwd]

NoOut == Out("", "", "", NoFrame)

\* ret: the call has returned (FALSE: its goroutine is blocked for ever)
\* every step of the interceptor under study sets last to its own record
Call(op, c, ret, in, out) ==
    [op |-> op, conn |-> c, ret |-> ret, in |-> in, out |-> out]

NoCall == Call("", "", TRUE, NoIn, NoOut)

\* a goroutine blocked for ever: the call it is in, and the statement
Blocked(c, op, at) == [conn |-> c, op |-> op, at |-> at]

Interceptors == {"encrypt", "room", "pingpong", "log"}

\* ------------------------------------------------ Bind / Close of any interceptor
\* a Bind that never reports an existing entry
Bind_errNever(i, held, c, fail) == ""

\* the error I.BindSocketConnection(c, ...) returns, "" for nil; held: the
\* connections I holds state for; fail: i.encryptorFactor() / loggerFactory
\* .Create() returns an error (NewAES256 never does)
Bind_err(i, held, c, fail) ==
    IF c \in held THEN "connection already exists"
    ELSE IF fail /\ i \in {"encrypt", "log"} THEN "create failed"
    ELSE ""

\* the error I.Close() returns; fail: encryptor.Close() / state.cleanup()
\* returns an error (AES256.Close never does)
Close_err(i, held, fail) ==
    IF fail /\ held # {} /\ i \in {"encrypt", "log"} THEN "close failed" ELSE ""

\* a Close that keeps its map
Close_heldKept(i, held, fail) == held

\* the connections I holds after Close(): log returns at the failing cleanup,
\* before it replaces the map
Close_held(i, held, fail) ==
    IF i = "log" /\ Close_err(i, held, fail) # "" THEN held ELSE {}

\* the contexts Bind made and no one cancelled, without those of interceptor i
\* for the connections in cs
Cancel(ctx, i, cs) == ctx \ {<<i, c>> : c \in cs}

\* the record of a lifecycle call: op is "<interceptor>.<method>"
Life(op, c, ret, err) == Call(op, c, ret, NoIn, Out(err, "", "", NoFrame))

\* -------------------------------------------- encrypt.Interceptor lifecycle
\* BindSocketConnection; w: the writer handed in, "chain" for the writer
\* Chain.BindSocketConnection composes, "base" for the transport's writer
Encrypt_BindSocketConnection(c, w) ==
    /\ ~aux.crashed
    /\ mutex = Free
    /\ LET held == {x \in Conns : states[x].exists}
           err == Bind_err("encrypt", held, c, FALSE)
       IN  /\ IF err # ""
              THEN UNCHANGED <<states, hist, aux>>
              ELSE /\ states' = [states EXCEPT ![c] = NewState(w)]
                   /\ hist' = [hist EXCEPT !["encrypt"][c] = TRUE]
                   /\ aux' = [aux EXCEPT !.ctx = @ \cup {<<"encrypt", c>>}]
           /\ last' = Life("encrypt.Bind", c, TRUE, err)
    /\ UNCHANGED <<isServer, mutex, stuck, hs, chain>>

\* Chain.BindSocketConnection: every interceptor is handed
\* chain.InterceptSocketWriter(writer), the fully wrapped writer
Chain_BindSocketConnection(c) == Encrypt_BindSocketConnection(c, "chain")

\* UnBindSocketConnection
Encrypt_UnBindSocketConnection(c) ==
    /\ ~aux.crashed
    /\ mutex = Free
    /\ states' = [states EXCEPT ![c] = NoState]
    /\ hist' = [hist EXCEPT !["encrypt"][c] = FALSE]
    /\ aux' = [aux EXCEPT !.ctx = Cancel(@, "encrypt", {c})]
    /\ last' = Life("encrypt.UnBind", c, TRUE, "")
    /\ UNCHANGED <<isServer, mutex, stuck, hs, chain>>

\* Close
Encrypt_Close ==
    /\ ~aux.crashed
    /\ mutex = Free
    /\ LET held == {x \in Conns : states[x].exists}
       IN  /\ states' = [c \in Conns |->
                           IF c \in Close_held("encrypt", held, FALSE)
                           THEN states[c] ELSE NoState]
           /\ aux' = [aux EXCEPT !.ctx = Cancel(@, "encrypt", held)]
           /\ last' = Life("encrypt.Close", "", TRUE, Close_err("encrypt", held, FALSE))
    /\ hist' = [hist EXCEPT !["encrypt"] = [c \in Conns |-> FALSE]]
    /\ UNCHANGED <<isServer, mutex, stuck, hs, chain>>

\* Init: locks Mutex, then calls initialiseKeyExchange, whose first statement
\* locks Mutex again; sync.RWMutex is not reentrant, so the goroutine blocks
\* for ever with Mutex held
Encrypt_Init(c) ==
    /\ mutex = Free
    /\ IF ~states[c].exists
       THEN /\ last' = Call("Init", c, TRUE, NoIn,
                            Out("connection not registered", "", "", NoFrame))
            /\ UNCHANGED <<mutex, stuck>>
       ELSE /\ last' = Call("Init", c, FALSE, NoIn, NoOut)
            /\ mutex' = Dead
            /\ stuck' = stuck \cup
                 {Blocked(c, "Init", "initialiseKeyExchange: Mutex.Lock")}
    /\ UNCHANGED <<isServer, states, aux, hist, hs, chain>>

\* the function InterceptSocketWriter returns; marshalOK: m.Marshal() succeeds
Encrypt_Write(c, marshalOK) ==
    /\ ~aux.crashed
    /\ mutex = Free
    /\ LET st == states[c]
           enc == Encrypt(st, marshalOK)
           plain == Frame("app", "app", FALSE, 0)
           fwd == IF ~st.exists THEN plain
                  ELSE IF Ready(st)
                       THEN IF enc.err # "" THEN plain
                            ELSE Frame(ProtocolMessage, ProtocolMessage, TRUE, enc.ad)
                       ELSE plain
       IN  last' = Call("Write", c, TRUE, In("app", FALSE, 0, marshalOK),
                        Out("", "", "", fwd))
    /\ UNCHANGED <<isServer, states, mutex, stuck, aux, hist, hs, chain>>

\* ------------------------------------------------- encrypt reader wrapper
\* an envelope as the transport's reader returns it: its Header.Protocol,
\* whether its Payload bytes decode as a JSON envelope, the session id those
\* bytes carry under "session_id", and the ciphertext they carry
Envelope(tag, body, sender, sid, ct) ==
    [tag |-> tag, body |-> body, sender |-> sender, sid |-> sid, ct |-> ct]

Envelopes ==
    {Envelope(t, "json", PeerID, 0, NoCt) : t \in protocolMap \cup {NoneProtocol}}
    \cup {Envelope(ProtocolUpdateSession, "json", PeerID, s, NoCt) : s \in 1..MaxSession}
    \cup {Envelope(ProtocolMessage, "raw", PeerID, 0, NoCt)}

\* the function InterceptSocketReader returns, up to its call of the inner
\* reader: Mutex is taken first and held while the inner Read waits
Encrypt_ReadLock(c) ==
    /\ mutex = Free
    /\ mutex' = Reading(c)
    /\ last' = NoCall
    /\ UNCHANGED <<isServer, states, stuck, aux, hist, hs, chain>>

\* ... and from the return of the inner reader on
Encrypt_ReadReturn(c, env, readErr) ==
    /\ mutex = Reading(c)
    /\ LET st == states[c]
           pu == ProtocolUnmarshal(env)
           out == Process(isServer, ID, st, pu.p, TRUE, 1)
           in == In(env.tag, FALSE, env.sid, env.body = "json")
           Return(o) == /\ last' = Call("Read", c, TRUE, in, o)
                        /\ mutex' = Free
                        /\ UNCHANGED stuck
       IN  IF readErr
           THEN Return(Out("read failed", "", "", NoFrame)) /\ UNCHANGED states
           ELSE IF ~st.exists \/ ~pu.ok
           THEN Return(Out("", "", "m", NoFrame)) /\ UNCHANGED states
           ELSE IF out.block # ""
           THEN /\ last' = Call("Read", c, FALSE, in, NoOut)
                /\ mutex' = Dead
                /\ stuck' = stuck \cup {Blocked(c, "Read", out.block)}
                /\ states' = [states EXCEPT ![c] = out.st]
           ELSE /\ Return(Out("", out.err, "payload", NoFrame))
                /\ states' = [states EXCEPT ![c] = out.st]
    /\ UNCHANGED <<isServer, aux, hist, hs, chain>>

\* ------------------------------------ handlers called with a decoded payload
\* payload.Process(i, Link) called on a payload value whose fields are set
\* (as package code and tests can); a handler that locks Mutex runs once it
\* has the lock
LocksMutex(p) ==
    \/ p.kind = ProtocolInit /\ Verify(p)
    \/ p.kind \in {ProtocolResponse, ProtocolInitDone}

Call_Process(p, in, k) ==
    /\ LocksMutex(p) => mutex = Free
    /\ LET out == Process(isServer, ID, states[Link], p, FALSE, k)
       IN  /\ states' = [states EXCEPT ![Link] = out.st]
           /\ IF out.block # ""
              THEN /\ last' = Call("Process", Link, FALSE, in, NoOut)
                   /\ mutex' = Dead
                   /\ stuck' = stuck \cup {Blocked(Link, "Process", out.block)}
              ELSE /\ last' = Call("Process", Link, TRUE, in,
                                   Out(out.err, out.err, "", HandshakeFrame(out.emit)))
                   /\ UNCHANGED <<mutex, stuck>>

CallUnchanged == UNCHANGED <<isServer, aux, hist, hs, chain>>

\* public keys a peer may send: those of its private keys, or zero bytes
PeerPubs == {ScalarBaseMult(k) : k \in 1..MaxKey} \cup {ZeroPub}

Call_Init_Process(sigOK, pub, salt, sid, k) ==
    /\ Call_Process(Payload(ProtocolInit, PeerID, pub, sigOK, salt, sid, "", NoCt),
                    In(ProtocolInit, sigOK, 0, TRUE), k)
    /\ CallUnchanged

Call_InitResponse_Process(pub) ==
    /\ Call_Process(Payload(ProtocolResponse, PeerID, pub, FALSE, 0, 0, "", NoCt),
                    In(ProtocolResponse, FALSE, 0, TRUE), 0)
    /\ CallUnchanged

Call_InitDone_Process ==
    /\ Call_Process(Payload(ProtocolInitDone, PeerID, ZeroPub, FALSE, 0, 0, "", NoCt),
                    In(ProtocolInitDone, FALSE, 0, TRUE), 0)
    /\ CallUnchanged

Call_UpdateSession_Process(sid) ==
    /\ Call_Process(Payload(ProtocolUpdateSession, PeerID, ZeroPub, FALSE, 0, sid, "", NoCt),
                    In(ProtocolUpdateSession, FALSE, sid, TRUE), 0)
    /\ CallUnchanged

\* the ciphertext is sealed under the key this side opens with, with
\* associated data ad, and arrives intact or tampered
Call_EncryptedMessage_Process(ad, intact) ==
    /\ Call_Process(Payload(ProtocolMessage, PeerID, ZeroPub, FALSE, 0, 0, "n",
                            [key |-> states[Link].decKey, ad |-> ad, intact |-> intact]),
                    In(ProtocolMessage, FALSE, 0, intact), 0)
    /\ CallUnchanged

\* ------------------------------------------------- interceptor.Registry, Chain
\* a factory and the interceptor it makes are named by the interceptor's package

\* Registry.Register with the new factory put in front
RegisterFirst(factories, factory) == <<factory>> \o factories

\* Registry.Register: registry.factories = append(registry.factories, factory)
Register(factories, factory) == Append(factories, factory)

\* a Writer or Reader is the sequence of the wrappers around it, outermost
\* first, ending in the base "writer" / "reader" of the socket.
\* I.InterceptSocketWriter(w): the room interceptor inherits
\* NoOpInterceptor.InterceptSocketWriter, which returns w itself
InterceptSocketWriter(i, w) == IF i = "room" THEN w ELSE <<i>> \o w

\* I.InterceptSocketReader(r): all four interceptors wrap the reader
InterceptSocketReader(i, r) == <<i>> \o r

RECURSIVE ChainWriterLastFirst(_, _)
\* the fold of Chain.InterceptSocketWriter taken from the last interceptor
ChainWriterLastFirst(interceptors, writer) ==
    IF interceptors = <<>> THEN writer
    ELSE ChainWriterLastFirst(SubSeq(interceptors, 1, Len(interceptors) - 1),
             InterceptSocketWriter(interceptors[Len(interceptors)], writer))

RECURSIVE ChainInterceptSocketWriter(_, _)
\* Chain.InterceptSocketWriter: for each interceptor in order,
\* writer = interceptor.InterceptSocketWriter(writer)
ChainInterceptSocketWriter(interceptors, writer) ==
    IF interceptors = <<>> THEN writer
    ELSE ChainInterceptSocketWriter(Tail(interceptors),
             InterceptSocketWriter(Head(interceptors), writer))

RECURSIVE ChainInterceptSocketReader(_, _)
\* Chain.InterceptSocketReader: for each interceptor in order,
\* reader = interceptor.InterceptSocketReader(reader)
ChainInterceptSocketReader(interceptors, reader) ==
    IF interceptors = <<>> THEN reader
    ELSE ChainInterceptSocketReader(Tail(interceptors),
             InterceptSocketReader(Head(interceptors), reader))

RECURSIVE WriterFunc_Write(_)
\* Write on a wrapped writer: the wrapper runs, then calls the writer it wraps;
\* the result is the order in which the wrappers and the base run
WriterFunc_Write(w) ==
    IF Len(w) = 1 THEN w ELSE <<Head(w)>> \o WriterFunc_Write(Tail(w))

RECURSIVE ReaderFunc_Read(_)
\* Read on a wrapped reader: the wrapper first calls the reader it wraps, then
\* works on the message; the result is the order in which the base reader and
\* the wrappers handle the message
ReaderFunc_Read(r) ==
    IF Len(r) = 1 THEN r ELSE ReaderFunc_Read(Tail(r)) \o <<Head(r)>>

\* the registry before any Register, with no chain built
NoChain ==
    [registered |-> <<>>, factories |-> <<>>, built |-> "", interceptors |-> <<>>,
     bound |-> <<>>, op |-> "", conn |-> "", calls |-> <<>>, order |-> <<>>,
     returned |-> <<>>, ret |-> <<>>, panicked |-> FALSE]

\* ------------------------------------------------------------ specification
\* a goroutine: the call it runs, and the connection it runs it for
Thread(op, c) == <<op, c>>

NoThread == Thread("", "")

\* a read or write of an interceptor's states map: the goroutine that made it
\* and the goroutine that held the interceptor's Mutex at that moment
Access(by, holder) == [by |-> by, holder |-> holder]

NoAccess == Access(NoThread, NoThread)

\* &Init{}, &InitResponse{}, ...: the zero value of the type registered
\* under protocol t
Zero(t) == Payload(t, "", ZeroPub, FALSE, 0, 0, "", NoCt)

\* the Message a ProtocolUnmarshal returned: ref names the registry entry it
\* points to ("" for nil), p is the value that was decoded into it
Decoded(ref, p) == [ref |-> ref, p |-> p]

NoDecoded == Decoded("", Zero(""))

\* pingpong.Ping and pingpong.Pong: the embedded message.BaseMessage (sender,
\* receiver, protocol, payload; "" for nil bytes) and the fields of the type
\* itself, MessageID (0 for ""), Timestamp and PingTimestamp (0 for the zero
\* time; a Ping has no PingTimestamp)
PingPongPayload(kind, sender, receiver, protocol, id, ts, pts) ==
    [kind |-> kind, sender |-> sender, receiver |-> receiver, protocol |-> protocol,
     payload |-> "", id |-> id, ts |-> ts, pts |-> pts]

\* var p Ping / var p Pong: the zero value
ZeroPingPong(kind) == PingPongPayload(kind, "", "", "", 0, 0, 0)

\* the *message.BaseMessage CreateMessage returns; payload holds the bytes
\* as the JSON object they encode
Message(sender, receiver, protocol, payload) ==
    [sender |-> sender, receiver |-> receiver, protocol |-> protocol,
     payload |-> payload]

\* no payload taken, nothing made of it yet; args: the senderID and
\* receiverID CreateMessage was given
NoCodec == [p |-> ZeroPingPong(""), q |-> ZeroPingPong(""), args |-> <<"", "">>,
            msg |-> Message("", "", "", ""), back |-> ZeroPingPong("")]

\* no stored room under a room id
NoRoom == [exists |-> FALSE, owner |-> "", allowed |-> {}, participants |-> {},
           old |-> [c \in Conns |-> ""], ttl |-> 0, age |-> 0]

\* room: keys of room.Interceptor.states; roomId: state.id of each of them;
\* rooms: room.Interceptor.rooms; roomMutex: room.Interceptor.Mutex;
\* pingpong, log: keys of their states maps; logMutex: log.Interceptor.Mutex;
\* ctx: the contexts made by Bind (per connection) and by CreateRoom (per
\* room) and not cancelled since; crashed: a panic has ended the process;
\* sent, errs: the writes and the errors of the room.send calls of the latest
\* payload.Process of the room interceptor; pingMutex: the goroutine that
\* holds pingpong.Interceptor.Mutex; access: the latest read or write of
\* pingpong.Interceptor.states; registry: the instance each entry of the
\* encrypt package's protocolMap points to, as its fields stand; decoded: the
\* Message the latest ProtocolUnmarshal made for a connection returned;
\* pending: the *state a ping loop has read from i.states and not yet written
\* through ("state", or "closed" once Close has set its writer to nil);
\* max, pings, pongs: state.max, state.pings and state.pongs of the ping state
\* of Link (the message ids of the records, oldest first); codec: a ping-pong
\* payload and what Marshal, Unmarshal and CreateMessage made of it
NoAux == [room |-> {}, roomId |-> [c \in Conns |-> ""],
          rooms |-> [r \in RoomIDs |-> NoRoom], roomMutex |-> "free",
          pingpong |-> {}, log |-> {}, logMutex |-> "free",
          ctx |-> {}, crashed |-> FALSE, sent |-> {}, errs |-> {},
          pingMutex |-> NoThread, access |-> NoAccess,
          registry |-> [t \in protocolMap |-> Zero(t)],
          decoded |-> [c \in Conns |-> NoDecoded],
          pending |-> [c \in Conns |-> ""],
          max |-> 0, pings |-> <<>>, pongs |-> <<>>,
          codec |-> NoCodec]

Ends == {"A", "B"}             \* the two ends of the in-memory link
Other(x) == IF x = "A" THEN "B" ELSE "A"

NoPayload == Payload("", "", ZeroPub, FALSE, 0, 0, "", NoCt)
NoFlight == [to |-> "", p |-> NoPayload]

\* both ends bound with the link's own writer; B's interceptor has ID idB
NewHs(idB) ==
    [st |-> [x \in Ends |-> NewState("base")],
     id |-> [x \in Ends |-> IF x = "A" THEN ID ELSE idB],
     flight |-> NoFlight, dead |-> {}]

InitEncrypt ==
    /\ states = [c \in Conns |-> NoState]
    /\ mutex = Free
    /\ stuck = {}
    /\ last = NoCall
    /\ hist = [i \in Interceptors |-> [c \in Conns |-> FALSE]]

Init ==
    /\ isServer \in BOOLEAN
    /\ InitEncrypt
    /\ aux = NoAux
    /\ hs = NewHs(ID)
    /\ chain = NoChain

Next ==
    \/ \E c \in Conns : Chain_BindSocketConnection(c)
    \/ Encrypt_BindSocketConnection(Link, "base")
    \/ \E c \in Conns : Encrypt_UnBindSocketConnection(c)
    \/ Encrypt_Close
    \/ \E c \in Conns : Encrypt_Init(c)
    \/ \E c \in Conns, marshalOK \in BOOLEAN : Encrypt_Write(c, marshalOK)
    \/ \E c \in Conns : Encrypt_ReadLock(c)
    \/ \E c \in Conns, env \in Envelopes, readErr \in BOOLEAN :
          Encrypt_ReadReturn(c, env, readErr)
    \/ \E pub \in PeerPubs, salt \in 1..MaxSalt, sid \in 1..MaxSession,
          k \in 1..MaxKey :
          Call_Init_Process(TRUE, pub, salt, sid, k)
    \/ \E pub \in PeerPubs :
          Call_Init_Process(FALSE, pub, MaxSalt, MaxSession, MaxKey)
    \/ \E pub \in PeerPubs : Call_InitResponse_Process(pub)
    \/ Call_InitDone_Process
    \/ \E sid \in 0..MaxSession : Call_UpdateSession_Process(sid)
    \/ \E ad \in 1..MaxSession, intact \in BOOLEAN :
          Call_EncryptedMessage_Process(ad, intact)

Spec == Init /\ [][Next]_vars

\* fairness: every call that can be made is eventually made
LiveSpec == Spec /\ WF_vars(Next)

\* ----------------------------------- room, ping-pong and log: Bind/UnBind/Close
\* a panic ends the process: no call is made after it
AuxUnchanged == ~aux.crashed /\ UNCHANGED <<isServer, states, mutex, stuck, hs, chain>>

SetHist(i, c, b) == hist' = [hist EXCEPT ![i][c] = b]
ClearHist(i) == hist' = [hist EXCEPT ![i] = [c \in Conns |-> FALSE]]

\* room.Interceptor.BindSocketConnection
Room_BindSocketConnection(c) ==
    /\ aux.roomMutex = "free"
    /\ LET err == Bind_err("room", aux.room, c, FALSE)
       IN  /\ IF err # ""
              THEN UNCHANGED <<aux, hist>>
              ELSE /\ aux' = [aux EXCEPT !.room = @ \cup {c}, !.roomId[c] = "unknown"]
                   /\ SetHist("room", c, TRUE)
           /\ last' = Life("room.Bind", c, TRUE, err)
    /\ AuxUnchanged

\* a room once i.states[c] is deleted: the participant entry of c keeps the
\* *state it points to, with the id that state had
Detach(a, r, c) ==
    IF c \in a.rooms[r].participants /\ a.rooms[r].old[c] = ""
    THEN [a.rooms[r] EXCEPT !.old[c] = a.roomId[c]]
    ELSE a.rooms[r]

\* room.Interceptor.UnBindSocketConnection: the entry is deleted; the loop
\* over the rooms of the connection is commented out
Room_UnBindSocketConnection(c) ==
    /\ aux.roomMutex = "free"
    /\ aux' = [aux EXCEPT !.room = @ \ {c}, !.roomId[c] = "",
                          !.rooms = [r \in RoomIDs |-> Detach(aux, r, c)]]
    /\ SetHist("room", c, FALSE)
    /\ last' = Life("room.UnBind", c, TRUE, "")
    /\ AuxUnchanged

\* room.Interceptor.Close: every room is closed, both maps are replaced
Room_Close ==
    /\ aux.roomMutex = "free"
    /\ aux' = [aux EXCEPT !.room = Close_held("room", aux.room, FALSE),
                          !.roomId = [c \in Conns |->
                              IF c \in Close_held("room", aux.room, FALSE)
                              THEN @[c] ELSE ""],
                          !.rooms = [r \in RoomIDs |-> NoRoom],
                          !.ctx = @ \ {<<"room", r>> : r \in
                                          {x \in RoomIDs : aux.rooms[x].exists}}]
    /\ ClearHist("room")
    /\ last' = Life("room.Close", "", TRUE, Close_err("room", aux.room, FALSE))
    /\ AuxUnchanged

\* pingpong.Interceptor.BindSocketConnection
PingPong_BindSocketConnection(c) ==
    /\ LET err == Bind_err("pingpong", aux.pingpong, c, FALSE)
       IN  /\ IF err # ""
              THEN UNCHANGED <<aux, hist>>
              ELSE /\ aux' = [aux EXCEPT !.pingpong = @ \cup {c},
                                         !.ctx = @ \cup {<<"pingpong", c>>}]
                   /\ SetHist("pingpong", c, TRUE)
           /\ last' = Life("pingpong.Bind", c, TRUE, err)
    /\ AuxUnchanged

\* pingpong.Interceptor.UnBindSocketConnection: i.states[connection].cancel()
\* dereferences a nil *state when the connection is not bound, and panics
PingPong_UnBindSocketConnection(c) ==
    /\ IF c \in aux.pingpong
       THEN /\ aux' = [aux EXCEPT !.pingpong = @ \ {c},
                                  !.ctx = Cancel(@, "pingpong", {c})]
            /\ last' = Life("pingpong.UnBind", c, TRUE, "")
       ELSE /\ aux' = [aux EXCEPT !.crashed = TRUE]
            /\ last' = Life("pingpong.UnBind", c, FALSE, "")
    /\ SetHist("pingpong", c, FALSE)
    /\ AuxUnchanged

\* pingpong.Interceptor.Close
PingPong_Close ==
    /\ aux' = [aux EXCEPT !.pingpong = Close_held("pingpong", aux.pingpong, FALSE),
                          !.ctx = Cancel(@, "pingpong", aux.pingpong)]
    /\ ClearHist("pingpong")
    /\ last' = Life("pingpong.Close", "", TRUE,
                    Close_err("pingpong", aux.pingpong, FALSE))
    /\ AuxUnchanged

\* log.Interceptor.BindSocketConnection; createOK: loggerFactory.Create succeeds
Log_BindSocketConnection(c, createOK) ==
    /\ aux.logMutex = "free"
    /\ LET err == Bind_err("log", aux.log, c, ~createOK)
       IN  /\ IF err # ""
              THEN UNCHANGED <<aux, hist>>
              ELSE /\ aux' = [aux EXCEPT !.log = @ \cup {c},
                                         !.ctx = @ \cup {<<"log", c>>}]
                   /\ SetHist("log", c, TRUE)
           /\ last' = Life("log.Bind", c, TRUE, err)
    /\ AuxUnchanged

\* state.cleanup: the first logger.Close error is returned
cleanup(closeOK) == IF closeOK THEN "" ELSE "close failed"

\* log.Interceptor.UnBindSocketConnection: state.cancel(), and when cleanup
\* fails it returns before delete(i.states, connection); with Mutex never
\* released by an earlier writer call it blocks in Mutex.Lock
Log_UnBindSocketConnection(c, closeOK) ==
    /\ IF aux.logMutex = "free" /\ c \in aux.log
       THEN /\ aux' = [aux EXCEPT !.log = IF cleanup(closeOK) = "" THEN @ \ {c} ELSE @,
                                  !.ctx = Cancel(@, "log", {c})]
            /\ last' = Life("log.UnBind", c, TRUE, "")
       ELSE /\ UNCHANGED aux
            /\ last' = Life("log.UnBind", c, aux.logMutex = "free", "")
    /\ SetHist("log", c, FALSE)
    /\ AuxUnchanged

\* log.Interceptor.Close: returns at the first failing cleanup, before the
\* map is replaced
Log_Close(closeOK) ==
    /\ aux.logMutex = "free"
    /\ aux' = [aux EXCEPT !.log = Close_held("log", aux.log, ~closeOK),
                          !.ctx = IF Close_err("log", aux.log, ~closeOK) # ""
                                  THEN @ ELSE Cancel(@, "log", aux.log)]
    /\ ClearHist("log")
    /\ last' = Life("log.Close", "", TRUE, Close_err("log", aux.log, ~closeOK))
    /\ AuxUnchanged

\* the function log.Interceptor.InterceptSocketWriter returns: it unlocks
\* Mutex only on the path that forwards; logOK: state.log succeeds
Log_Write(c, logOK) ==
    /\ aux.logMutex = "free"
    /\ IF c \in aux.log /\ logOK
       THEN UNCHANGED aux
       ELSE aux' = [aux EXCEPT !.logMutex = "leaked"]
    /\ last' = Life("log.Write", c, TRUE,
                    IF c \notin aux.log THEN "connection does not exists"
                    ELSE IF ~logOK THEN "log failed" ELSE "")
    /\ UNCHANGED hist
    /\ AuxUnchanged

NextLife ==
    \/ \E c \in Conns, w \in {"chain", "base"} : Encrypt_BindSocketConnection(c, w)
    \/ \E c \in Conns : Encrypt_UnBindSocketConnection(c)
    \/ Encrypt_Close
    \/ \E c \in Conns : Encrypt_Write(c, TRUE)
    \/ \E c \in Conns : Room_BindSocketConnection(c)
    \/ \E c \in Conns : Room_UnBindSocketConnection(c)
    \/ Room_Close
    \/ \E c \in Conns : PingPong_BindSocketConnection(c)
    \/ \E c \in Conns : PingPong_UnBindSocketConnection(c)
    \/ PingPong_Close
    \/ \E c \in Conns, createOK \in BOOLEAN : Log_BindSocketConnection(c, createOK)
    \/ \E c \in Conns, closeOK \in BOOLEAN : Log_UnBindSocketConnection(c, closeOK)
    \/ \E closeOK \in BOOLEAN : Log_Close(closeOK)
    \/ \E c \in Conns, logOK \in BOOLEAN : Log_Write(c, logOK)

SpecLife == Init /\ [][NextLife]_vars

\* ------------------------------------------------ room.Interceptor: payloads
CreateRoomSubType == "create_room"
JoinRoomSubType == "join_room"
LeaveRoomSubType == "leave_room"
ChatSourceRoomSubType == "chat_source"
ChatDestRoomSubType == "chat_destination"
ClientJoinedRoomSubType == "client_joined"
ClientLeftRoomSubType == "client_left"
SuccessRoomSubType == "success"

\* the sub-types whose Process locks the interceptor Mutex
LockingSubTypes ==
    {CreateRoomSubType, JoinRoomSubType, LeaveRoomSubType, ChatSourceRoomSubType}

\* subTypeMap; the sub-types whose Process returns nil at once (chat
\* destination, client joined / left, success, error) are stood for by success
subTypeMap == LockingSubTypes \cup {SuccessRoomSubType}

\* a room payload with the header it came in: sender is Header.SenderID,
\* allow is ClientsToAllow, ttl is CloseTime, to is RecipientID, valid says
\* Validate() passes (RoomID is set), fail holds the recipient ids whose
\* state.writer.Write returns an error
RoomPayload(sub, sender, room, allow, ttl, to, valid, fail) ==
    [sub |-> sub, sender |-> sender, room |-> room, allow |-> allow, ttl |-> ttl,
     to |-> to, valid |-> valid, fail |-> fail]

\* the outcome of a room handler: the interceptor's maps afterwards, the error
\* returned, and where the goroutine blocks for ever ("" if it returns)
RoomOutcome(a, err, block) == [a |-> a, err |-> err, block |-> block]

\* room.isAllowed
room_isAllowed(room, id) == id \in room.allowed

\* state.id of the participant entry kept for connection c: the entry is the
\* *state of i.states[c], or the one that was there before c was unbound
room_id(a, r, c) ==
    IF a.rooms[r].old[c] # "" THEN a.rooms[r].old[c] ELSE a.roomId[c]

\* room.sendTo: the participants whose state.id is id; the range over the map
\* writes to the first of them it meets
room_sendTo(a, r, id) == {c \in a.rooms[r].participants : room_id(a, r, c) = id}

\* one state.writer.Write of room.sendTo: the recipient id, the connections
\* one of which is written to, the sender and the payload's sub-type, and
\* whether the Write returned nil
Sent(to, conns, from, kind, ok) ==
    [to |-> to, conns |-> conns, from |-> from, kind |-> kind, ok |-> ok]

\* room.send with its first failure ending the loop: nothing is written once
\* some recipient has failed
room_sendAbort(a, r, from, kind, to, fail) ==
    LET ids == IF to = {} THEN a.rooms[r].allowed ELSE to
        bad == {id \in ids : room_sendTo(a, r, id) = {} \/ id \in fail}
    IN  IF bad = {}
        THEN [sent |-> {Sent(id, room_sendTo(a, r, id), from, kind, TRUE) : id \in ids},
              errs |-> {}]
        ELSE [sent |-> {}, errs |-> {<<CHOOSE id \in bad : TRUE, "send failed">>}]

\* room.send, called with room.mux free: an empty `to` means room.allowed; each
\* id is looked up among the participants' state.id and written to; an error
\* is added to the MultiError and the loop goes on
room_send(a, r, from, kind, to, fail) ==
    LET ids == IF to = {} THEN a.rooms[r].allowed ELSE to
        found == {id \in ids : room_sendTo(a, r, id) # {}}
    IN  [sent |-> {Sent(id, room_sendTo(a, r, id), from, kind, id \notin fail) :
                      id \in found},
         errs |-> {<<id, "connection does not exists">> : id \in ids \ found}
                  \cup {<<id, "write failed">> : id \in found \cap fail}]

\* the writes and the errors of a room.send, kept with the interceptor's maps
WithSent(a, s) == [a EXCEPT !.sent = s.sent, !.errs = s.errs]

\* MultiError.ErrorOrNil
ErrorOrNil(errs) == IF errs = {} THEN "" ELSE "send failed"

\* room.add: it locks room.mux and, once the participant is stored, calls
\* room.send, which locks room.mux again
room_add(a, r, c) ==
    LET room == a.rooms[r]
    IN  IF ~room_isAllowed(room, a.roomId[c])
        THEN RoomOutcome(a, "participant not allowed", "")
        ELSE IF c \in room.participants
        THEN RoomOutcome(a, "participant already exists", "")
        ELSE RoomOutcome([a EXCEPT !.rooms[r].participants = @ \cup {c}], "",
                         "room.add: room.send: mux.Lock")

\* room.remove: it locks room.mux and calls room.send for every participant
\* before it deletes the one that leaves
room_remove(a, r, c) ==
    LET a1 == [a EXCEPT !.rooms[r].owner = IF @ = c THEN "" ELSE @]
    IN  IF c \notin a.rooms[r].participants
        THEN RoomOutcome(a1, "participant does not exists", "")
        ELSE RoomOutcome(a1, "", "room.remove: room.send: mux.Lock")

\* newRoom: the owner is the first participant and is sent the success message
newRoom(a, r, c, p) ==
    LET a1 == [a EXCEPT !.rooms[r] =
                  [exists |-> TRUE, owner |-> c, allowed |-> p.allow,
                   participants |-> {c}, old |-> [x \in Conns |-> ""],
                   ttl |-> p.ttl, age |-> 0]]
        s == room_send(a1, r, "server", SuccessRoomSubType, {a.roomId[c]}, p.fail)
    IN  IF s.errs # {}
        THEN RoomOutcome(WithSent(a, s), ErrorOrNil(s.errs), "")
        ELSE RoomOutcome(WithSent(a1, s), "", "")

\* CreateRoom.Process; held: the caller (the reader wrapper) holds Mutex; the
\* room's context is made before newRoom is called
CreateRoom_Process(a, c, p, held) ==
    IF ~p.valid THEN RoomOutcome(a, "not valid", "")
    ELSE IF held THEN RoomOutcome(a, "", "CreateRoom.Process: Mutex.Lock")
    ELSE IF c \notin a.room THEN RoomOutcome(a, "connection not registered yet", "")
    ELSE LET a1 == [a EXCEPT !.roomId[c] = p.sender]
         IN  IF a1.rooms[p.room].exists THEN room_add(a1, p.room, c)
             ELSE newRoom([a1 EXCEPT !.ctx = @ \cup {<<"room", p.room>>}],
                          p.room, c, p)

\* JoinRoom.Process
JoinRoom_Process(a, c, p, held) ==
    IF ~p.valid THEN RoomOutcome(a, "not valid", "")
    ELSE IF held THEN RoomOutcome(a, "", "JoinRoom.Process: Mutex.Lock")
    ELSE IF c \notin a.room THEN RoomOutcome(a, "connection not registered yet", "")
    ELSE LET a1 == [a EXCEPT !.roomId[c] = p.sender]
         IN  IF ~a1.rooms[p.room].exists
             THEN RoomOutcome(a1, "room does not exists", "")
             ELSE room_add(a1, p.room, c)

\* LeaveRoom.Process
LeaveRoom_Process(a, c, p, held) ==
    IF ~p.valid THEN RoomOutcome(a, "not valid", "")
    ELSE IF held THEN RoomOutcome(a, "", "LeaveRoom.Process: Mutex.Lock")
    ELSE IF ~a.rooms[p.room].exists THEN RoomOutcome(a, "room does not exists", "")
    ELSE IF c \notin a.room THEN RoomOutcome(a, "connection not registered yet", "")
    ELSE room_remove([a EXCEPT !.roomId[c] = p.sender], p.room, c)

\* ChatSource.Process: the ChatDest goes from header.SenderID to the recipients
ChatSource_Process(a, c, p, held) ==
    IF ~p.valid THEN RoomOutcome(a, "not valid", "")
    ELSE IF held THEN RoomOutcome(a, "", "ChatSource.Process: Mutex.Lock")
    ELSE IF ~a.rooms[p.room].exists THEN RoomOutcome(a, "room does not exists", "")
    ELSE IF c \notin a.room THEN RoomOutcome(a, "connection not registered yet", "")
    ELSE LET a1 == [a EXCEPT !.roomId[c] = p.sender]
             s == room_send(a1, p.room, p.sender, ChatDestRoomSubType, p.to, p.fail)
         IN  RoomOutcome(WithSent(a1, s), ErrorOrNil(s.errs), "")

\* payload.Process(header, i, connection), dispatched on the payload's type;
\* sent and errs start empty with every call
Room_Process(a, c, p, held) ==
    LET a0 == [a EXCEPT !.sent = {}, !.errs = {}]
    IN  CASE p.sub = CreateRoomSubType -> CreateRoom_Process(a0, c, p, held)
          [] p.sub = JoinRoomSubType -> JoinRoom_Process(a0, c, p, held)
          [] p.sub = LeaveRoomSubType -> LeaveRoom_Process(a0, c, p, held)
          [] p.sub = ChatSourceRoomSubType -> ChatSource_Process(a0, c, p, held)
          [] OTHER -> RoomOutcome(a0, "", "")

\* ------------------------------------------------- room.Interceptor: actions
\* the record of a room call: in.kind is the payload's sub-type ("foreign" for
\* an envelope the reader does not take as its own), in.ok is valid, in.to the
\* RecipientID of a ChatSource
RoomIn(kind, valid, to) == [kind |-> kind, sigOK |-> FALSE, sid |-> 0, ok |-> valid, to |-> to]

RoomUnchanged == ~aux.crashed /\ UNCHANGED <<isServer, states, mutex, hist, hs, chain>>

\* payload.Process called with a decoded payload; a handler that locks Mutex
\* runs once it has the lock
Call_Room_Process(c, p) ==
    /\ p.valid => aux.roomMutex = "free"
    /\ LET out == Room_Process(aux, c, p, FALSE)
           in == RoomIn(p.sub, p.valid, p.to)
       IN  IF out.block # ""
           THEN /\ aux' = [out.a EXCEPT !.roomMutex = "dead"]
                /\ stuck' = stuck \cup {Blocked(c, "room.Process", out.block)}
                /\ last' = Call("room.Process", c, FALSE, in, NoOut)
           ELSE /\ aux' = out.a
                /\ UNCHANGED stuck
                /\ last' = Call("room.Process", c, TRUE, in,
                                Out(out.err, out.err, "", NoFrame))

Call_CreateRoom_Process(c, sender, allow, ttl, valid, writeOK) ==
    /\ \E r \in RoomIDs :
          Call_Room_Process(c, RoomPayload(CreateRoomSubType, sender, r, allow, ttl,
                                           {}, valid, IF writeOK THEN {} ELSE IDs))
    /\ RoomUnchanged

Call_JoinRoom_Process(c, sender, valid) ==
    /\ \E r \in RoomIDs :
          Call_Room_Process(c, RoomPayload(JoinRoomSubType, sender, r, {}, 0, {},
                                           valid, {}))
    /\ RoomUnchanged

Call_LeaveRoom_Process(c, sender, valid) ==
    /\ \E r \in RoomIDs :
          Call_Room_Process(c, RoomPayload(LeaveRoomSubType, sender, r, {}, 0, {},
                                           valid, {}))
    /\ RoomUnchanged

Call_ChatSource_Process(c, sender, to, valid, fail) ==
    /\ \E r \in RoomIDs :
          Call_Room_Process(c, RoomPayload(ChatSourceRoomSubType, sender, r, {}, 0,
                                           to, valid, fail))
    /\ RoomUnchanged

\* an inbound interceptor.BaseMessage: Protocol, MainType, SubType, and
\* whether its payload validates
RoomEnvelope(protocol, main, sub, valid) ==
    [protocol |-> protocol, main |-> main, sub |-> sub, valid |-> valid]

\* room envelopes of every sub-type, valid or not; an envelope of another
\* interceptor under IProtocol; a room-typed one under another protocol; and
\* one that is neither
RoomEnvelopes ==
    {RoomEnvelope("interceptor", "room", sub, v) :
        sub \in LockingSubTypes, v \in BOOLEAN}
    \cup {RoomEnvelope("interceptor", "room", SuccessRoomSubType, TRUE),
          RoomEnvelope("interceptor", "ping", "pong", TRUE),
          RoomEnvelope(NoneProtocol, "room", JoinRoomSubType, TRUE),
          RoomEnvelope(NoneProtocol, "ping", "pong", TRUE)}

\* the reader takes the envelope as its own unless
\* msg.Protocol != IProtocol && msg.MainType != MainType
RoomOwns(env) == ~(env.protocol # "interceptor" /\ env.main # "room")

\* the function room.Interceptor.InterceptSocketReader returns: it reads, and
\* for an envelope of its own locks Mutex, decodes and calls payload.Process
\* with Mutex held; the envelope is returned as read on every path
Room_Read(c, env, readErr) ==
    /\ (~readErr /\ RoomOwns(env)) => aux.roomMutex = "free"
    /\ LET in == RoomIn(IF RoomOwns(env) THEN env.sub ELSE "foreign", env.valid, {})
           p == RoomPayload(env.sub, PeerID, CHOOSE r \in RoomIDs : TRUE, {}, 0, {},
                            env.valid, {})
           out == Room_Process(aux, c, p, TRUE)
           Return(o) == /\ last' = Call("room.Read", c, TRUE, in, o)
                        /\ UNCHANGED <<aux, stuck>>
       IN  IF readErr THEN Return(Out("read failed", "", "", NoFrame))
           ELSE IF ~RoomOwns(env) \/ c \notin aux.room
           THEN Return(Out("", "", "m", NoFrame))
           ELSE IF env.sub \notin subTypeMap
           THEN Return(Out("", "processor does not exist for given type", "m", NoFrame))
           ELSE IF out.block # ""
           THEN /\ aux' = [out.a EXCEPT !.roomMutex = "dead"]
                /\ stuck' = stuck \cup {Blocked(c, "room.Read", out.block)}
                /\ last' = Call("room.Read", c, FALSE, in, NoOut)
           ELSE /\ last' = Call("room.Read", c, TRUE, in, Out("", out.err, "m", NoFrame))
                /\ aux' = out.a
                /\ UNCHANGED stuck
    /\ RoomUnchanged

\* the reader is handed the four envelopes whose Process locks Mutex; the
\* handlers are also called with a decoded payload
NextRoom ==
    \/ \E c \in Conns : Room_BindSocketConnection(c)
    \/ \E c \in Conns : Room_UnBindSocketConnection(c)
    \/ Room_Close
    \/ \E c \in Conns, sub \in LockingSubTypes :
          Room_Read(c, RoomEnvelope("interceptor", "room", sub, TRUE), FALSE)
    \/ \E c \in Conns :
          Room_Read(c, RoomEnvelope("interceptor", "room", JoinRoomSubType, TRUE), TRUE)
    \/ \E c \in Conns, sender \in IDs, allow \in SUBSET IDs :
          Call_CreateRoom_Process(c, sender, allow, MaxTTL, TRUE, TRUE)
    \/ \E c \in Conns, ok \in BOOLEAN :
          Call_CreateRoom_Process(c, ID, {}, MaxTTL, ok, ~ok)
    \/ \E c \in Conns, sender \in IDs : Call_JoinRoom_Process(c, sender, TRUE)
    \/ \E c \in Conns, sender \in IDs : Call_LeaveRoom_Process(c, sender, TRUE)
    \/ \E c \in Conns, sender \in IDs, to \in SUBSET IDs, fail \in {{}, IDs} :
          Call_ChatSource_Process(c, sender, to, TRUE, fail)

\* the room interceptor does not read isServer
InitRoom == Init /\ ~isServer

SpecRoom == InitRoom /\ [][NextRoom]_vars

\* ------------------------------------------------------ room: time to live
\* time passes: every stored room grows older by one unit, up to MaxTTL.
\* room.loop, which holds the timer of room.ttl and closes the room when it
\* fires, is started by no one, and the room's context is made by
\* context.WithCancel: no step of the interceptor follows from a room's age
Tick ==
    /\ \E r \in RoomIDs : aux.rooms[r].exists /\ aux.rooms[r].age < MaxTTL
    /\ aux' = [aux EXCEPT !.rooms =
                  [r \in RoomIDs |->
                      IF aux.rooms[r].exists /\ aux.rooms[r].age < MaxTTL
                      THEN [aux.rooms[r] EXCEPT !.age = @ + 1]
                      ELSE aux.rooms[r]]]
    /\ last' = NoCall
    /\ UNCHANGED stuck
    /\ RoomUnchanged

NextTTL ==
    \/ \E c \in Conns : Room_BindSocketConnection(c)
    \/ \E c \in Conns : Room_UnBindSocketConnection(c)
    \/ Room_Close
    \/ \E c \in Conns, sender \in IDs, allow \in SUBSET IDs, ttl \in 1..MaxTTL :
          Call_CreateRoom_Process(c, sender, allow, ttl, TRUE, TRUE)
    \/ Tick

\* time does not stop; the calls are the environment's and may never come
LiveRoomSpec == InitRoom /\ [][NextTTL]_vars /\ WF_vars(Tick)

\* rooms that outlive their ttl, and the calls that then name them
NextExpiry ==
    \/ NextTTL
    \/ \E c \in Conns, sender \in IDs : Call_JoinRoom_Process(c, sender, TRUE)

SpecExpiry == InitRoom /\ [][NextExpiry]_vars

\* ------------------------------------- pingpong.Interceptor: goroutines
\* the calls of the ping-pong interceptor that begin with i.Mutex.Lock()
PingOps == {"Bind", "UnBind", "Ping.Process"}

\* i.Mutex.Lock() at the top of BindSocketConnection, UnBindSocketConnection
\* and Ping.Process: the goroutine goes on once the Mutex is free
PingPong_Lock(op, c) ==
    /\ aux.pingMutex = NoThread
    /\ aux' = [aux EXCEPT !.pingMutex = Thread(op, c)]
    /\ last' = NoCall
    /\ UNCHANGED hist
    /\ AuxUnchanged

\* BindSocketConnection from its Lock on; the deferred Unlock ends it. Bind
\* starts the ping loop of the connection, which lives until ctx is cancelled
PingPong_BindLocked(c) ==
    /\ aux.pingMutex = Thread("Bind", c)
    /\ LET err == Bind_err("pingpong", aux.pingpong, c, FALSE)
           a == [aux EXCEPT !.pingMutex = NoThread,
                            !.access = Access(Thread("Bind", c), aux.pingMutex)]
       IN  /\ IF err # ""
              THEN aux' = a /\ UNCHANGED hist
              ELSE /\ aux' = [a EXCEPT !.pingpong = @ \cup {c},
                                       !.ctx = @ \cup {<<"pingpong", c>>}]
                   /\ SetHist("pingpong", c, TRUE)
           /\ last' = Life("pingpong.Bind", c, TRUE, err)
    /\ AuxUnchanged

\* UnBindSocketConnection from its Lock on
PingPong_UnBindLocked(c) ==
    /\ aux.pingMutex = Thread("UnBind", c)
    /\ LET a == [aux EXCEPT !.pingMutex = NoThread,
                            !.access = Access(Thread("UnBind", c), aux.pingMutex)]
       IN  IF c \in aux.pingpong
           THEN /\ aux' = [a EXCEPT !.pingpong = @ \ {c},
                                    !.ctx = Cancel(@, "pingpong", {c})]
                /\ last' = Life("pingpong.UnBind", c, TRUE, "")
           ELSE /\ aux' = [a EXCEPT !.crashed = TRUE]
                /\ last' = Life("pingpong.UnBind", c, FALSE, "")
    /\ SetHist("pingpong", c, FALSE)
    /\ AuxUnchanged

\* Ping.Process from its Lock on, on an interceptor that pings itself (i.ping):
\* the ping is recorded and no pong is written
Ping_ProcessLocked(c) ==
    /\ aux.pingMutex = Thread("Ping.Process", c)
    /\ aux' = [aux EXCEPT !.pingMutex = NoThread,
                          !.access = Access(Thread("Ping.Process", c), aux.pingMutex)]
    /\ LET err == IF c \in aux.pingpong THEN "" ELSE "connection does not exists"
       IN  last' = Call("pingpong.Process", c, TRUE, In("ping", FALSE, 0, TRUE),
                        Out(err, err, "", NoFrame))
    /\ UNCHANGED hist
    /\ AuxUnchanged

\* Close from its Lock on: every state is cancelled, its reader and writer are
\* set to nil, and the map is replaced
PingPong_CloseLocked ==
    /\ aux.pingMutex = Thread("Close", "")
    /\ aux' = [aux EXCEPT !.pingMutex = NoThread,
                          !.access = Access(Thread("Close", ""), aux.pingMutex),
                          !.pingpong = Close_held("pingpong", aux.pingpong, FALSE),
                          !.ctx = Cancel(@, "pingpong", aux.pingpong),
                          !.pending = [c \in Conns |->
                                          IF @[c] = "state" THEN "closed" ELSE @[c]]]
    /\ ClearHist("pingpong")
    /\ last' = Life("pingpong.Close", "", TRUE,
                    Close_err("pingpong", aux.pingpong, FALSE))
    /\ AuxUnchanged

\* Interceptor.loop for connection c, from a tick of its ticker to the read of
\* i.states[connection]: the select takes ticker.C while ctx is live, and the
\* map is read without the Mutex
PingPong_loopTick(c) ==
    /\ <<"pingpong", c>> \in aux.ctx
    /\ aux.pending[c] = ""
    /\ aux' = [aux EXCEPT !.access = Access(Thread("loop", c), aux.pingMutex),
                          !.pending[c] = IF c \in aux.pingpong THEN "state" ELSE ""]
    /\ last' = Call("pingpong.loop", c, TRUE, NoIn,
                    IF c \in aux.pingpong THEN NoOut
                    ELSE Out("connection does not exists", "", "", NoFrame))
    /\ UNCHANGED hist
    /\ AuxUnchanged

\* ... and from there to the end of that round: state.writer.Write(connection,
\* ..., msg) on the *state that was read. The writer is the full stack, whose
\* ping-pong wrapper takes the Mutex for the time of the call. After Close the
\* read of state.writer races with `state.writer = nil`: the loop either still
\* sees the writer (stale) or calls Write on a nil Writer and panics
PingPong_loopWrite(c, writeOK, stale) ==
    /\ aux.pending[c] # ""
    /\ aux.pingMutex = NoThread
    /\ IF aux.pending[c] = "closed" /\ ~stale
       THEN /\ aux' = [aux EXCEPT !.pending[c] = "", !.crashed = TRUE]
            /\ last' = Call("pingpong.loop", c, FALSE, NoIn, NoOut)
       ELSE /\ aux' = [aux EXCEPT !.pending[c] = ""]
            /\ last' = Call("pingpong.loop", c, TRUE, NoIn,
                            Out(IF writeOK THEN "" ELSE "write failed", "", "",
                                Frame("ping", "ping", FALSE, 0)))
    /\ UNCHANGED hist
    /\ AuxUnchanged

NextPing ==
    \/ \E op \in PingOps, c \in Conns : PingPong_Lock(op, c)
    \/ PingPong_Lock("Close", "")
    \/ \E c \in Conns : PingPong_BindLocked(c)
    \/ \E c \in Conns : PingPong_UnBindLocked(c)
    \/ PingPong_CloseLocked
    \/ \E c \in Conns : Ping_ProcessLocked(c)
    \/ \E c \in Conns : PingPong_loopTick(c)
    \/ \E c \in Conns, writeOK, stale \in BOOLEAN : PingPong_loopWrite(c, writeOK, stale)

SpecPing == InitRoom /\ [][NextPing]_vars

\* ------------------------------------------------- ping and pong history
\* WithMaxHistory(max): interceptor.maxHistory = max
WithMaxHistory(max) == max

\* NewInterceptor with no WithMaxHistory option: maxHistory keeps the zero
\* value of uint16
DefaultMaxHistory == 0

\* the body of recordPing and of recordPong on the slice rs: when
\* uint16(len(rs)) >= max and the slice is not empty its first record is
\* dropped, then the new record is appended
record(rs, max, id) ==
    LET kept == IF (Len(rs) % 65536) >= max /\ Len(rs) > 0 THEN Tail(rs) ELSE rs
    IN  Append(kept, id)

\* state.recordPing(payload)
State_recordPing(id) ==
    /\ aux' = [aux EXCEPT !.pings = record(@, aux.max, id)]
    /\ last' = Call("recordPing", Link, TRUE, In("ping", FALSE, id, TRUE), NoOut)
    /\ UNCHANGED hist
    /\ AuxUnchanged

\* state.recordPong(payload)
State_recordPong(id) ==
    /\ aux' = [aux EXCEPT !.pongs = record(@, aux.max, id)]
    /\ last' = Call("recordPong", Link, TRUE, In("pong", FALSE, id, TRUE), NoOut)
    /\ UNCHANGED hist
    /\ AuxUnchanged

\* the state Bind stores for Link: max is the interceptor's maxHistory, set by
\* WithMaxHistory or left at its default
InitHistory ==
    /\ isServer = FALSE
    /\ InitEncrypt
    /\ \E m \in {DefaultMaxHistory} \cup {WithMaxHistory(x) : x \in 0..MaxHistory} :
          aux = [NoAux EXCEPT !.max = m]
    /\ hs = NewHs(ID)
    /\ chain = NoChain

NextHistory ==
    \/ \E id \in 1..MaxMsg : State_recordPing(id)
    \/ \E id \in 1..MaxMsg : State_recordPong(id)

SpecHistory == InitHistory /\ [][NextHistory]_vars

\* ------------------------------------------- ping-pong payloads: encoding
ProtocolPing == "ping"
ProtocolPong == "pong"

\* payload.Marshal() of a Ping or Pong: neither type defines Marshal, so the
\* method is BaseMessage.Marshal of the embedded message.BaseMessage, and
\* json.Marshal is handed the *BaseMessage: the JSON object has the header's
\* three keys and, when the payload bytes are not empty, "payload"
PingPong_Marshal(p) ==
    LET header == [source_id |-> p.sender, destination_id |-> p.receiver,
                   protocol |-> p.protocol]
    IN  IF p.payload = "" THEN header ELSE header @@ [payload |-> p.payload]

\* a key of a JSON object, or the value the target holds when it is absent
Key(data, k, held) == IF k \in DOMAIN data THEN data[k] ELSE held

\* payload.Unmarshal(data) of a Ping or Pong: BaseMessage.Unmarshal, that is
\* json.Unmarshal(data, *BaseMessage); the fields of Ping and Pong are not
\* visible to it
PingPong_Unmarshal(q, data) ==
    [q EXCEPT !.sender = Key(data, "source_id", @),
              !.receiver = Key(data, "destination_id", @),
              !.protocol = Key(data, "protocol", @),
              !.payload = Key(data, "payload", @)]

\* json.Unmarshal(data, &q) with q a Ping or Pong: the promoted fields of the
\* embedded BaseMessage and the type's own fields are all filled from the
\* keys the object has
json_Unmarshal(q, data) ==
    [PingPong_Unmarshal(q, data) EXCEPT
        !.id = Key(data, "message_id", @),
        !.ts = Key(data, "timestamp", @),
        !.pts = IF q.kind = ProtocolPong THEN Key(data, "ping_timestamp", @) ELSE @]

\* message.CreateMessage(senderID, receiverID, payload) for a payload that is
\* not nil: data is payload.Marshal(), protocol is payload.Protocol()
CreateMessage(senderID, receiverID, payload) ==
    Message(senderID, receiverID, payload.kind, PingPong_Marshal(payload))

\* the payloads: as NewPing and NewPong build them (header set, protocol
\* "none"), or with the header left empty
PingPongPayloads ==
    {PingPongPayload(kind, h[1], h[2], h[3], id, ts, IF kind = ProtocolPong THEN 1 ELSE 0) :
        kind \in {ProtocolPing, ProtocolPong},
        h \in {<<"", "", "">>} \cup {<<x, y, NoneProtocol>> : x, y \in IDs},
        id \in 1..MaxMsg, ts \in 1..MaxMsg}

\* data, _ := p.Marshal(); var q Ping; q.Unmarshal(data)
Codec_MarshalUnmarshal ==
    /\ aux' = [aux EXCEPT !.codec.q =
                  PingPong_Unmarshal(ZeroPingPong(aux.codec.p.kind),
                                     PingPong_Marshal(aux.codec.p))]
    /\ last' = Call("Marshal.Unmarshal", Link, TRUE,
                    In(aux.codec.p.kind, FALSE, aux.codec.p.id, TRUE), NoOut)
    /\ UNCHANGED hist
    /\ AuxUnchanged

\* msg, _ := CreateMessage(senderID, receiverID, p); var back Ping;
\* json.Unmarshal(msg.Payload, &back)
Codec_CreateMessage(senderID, receiverID) ==
    /\ LET msg == CreateMessage(senderID, receiverID, aux.codec.p)
       IN  aux' = [aux EXCEPT !.codec.args = <<senderID, receiverID>>,
                              !.codec.msg = msg,
                              !.codec.back =
                                  json_Unmarshal(ZeroPingPong(aux.codec.p.kind),
                                                 msg.payload)]
    /\ last' = Call("CreateMessage", Link, TRUE,
                    In(aux.codec.p.kind, FALSE, aux.codec.p.id, TRUE), NoOut)
    /\ UNCHANGED hist
    /\ AuxUnchanged

InitCodec ==
    /\ isServer = FALSE
    /\ InitEncrypt
    /\ \E p \in PingPongPayloads : aux = [NoAux EXCEPT !.codec.p = p]
    /\ hs = NewHs(ID)
    /\ chain = NoChain

NextCodec ==
    \/ Codec_MarshalUnmarshal
    \/ \E senderID, receiverID \in IDs : Codec_CreateMessage(senderID, receiverID)

SpecCodec == InitCodec /\ [][NextCodec]_vars

\* ------------------------------------------------ the protocol registry
\* envelopes of every protocol, from either sender, whose payload bytes decode
\* or do not
DecodeEnvelopes ==
    {Envelope(t, body, sender, 0, NoCt) :
        t \in protocolMap \cup {NoneProtocol}, body \in {"json", "raw"}, sender \in IDs}

\* message.ProtocolUnmarshal(protocolMap, protocol, data), called by the reader
\* of connection c: msg is the instance the registry holds, msg.Unmarshal(data)
\* decodes into that instance, and msg itself is returned. The calls are taken
\* one at a time, as the readers of one interceptor make them
Message_ProtocolUnmarshal(c, env) ==
    /\ LET pu == ProtocolUnmarshal(env)
            in == In(env.tag, FALSE, env.sid, env.body = "json")
       IN  IF env.tag \notin protocolMap
           THEN /\ aux' = [aux EXCEPT !.decoded[c] = NoDecoded]
                /\ last' = Call("ProtocolUnmarshal", c, TRUE, in,
                                Out("protocol no match", "", "", NoFrame))
           ELSE IF ~pu.ok
           THEN /\ aux' = [aux EXCEPT !.decoded[c] = NoDecoded]
                /\ last' = Call("ProtocolUnmarshal", c, TRUE, in,
                                Out("unmarshal failed", "", "", NoFrame))
           ELSE /\ aux' = [aux EXCEPT !.registry[env.tag] = pu.p,
                                      !.decoded[c] = Decoded(env.tag, pu.p)]
                /\ last' = Call("ProtocolUnmarshal", c, TRUE, in, NoOut)
    /\ UNCHANGED hist
    /\ AuxUnchanged

NextDecode == \E c \in Conns, env \in DecodeEnvelopes : Message_ProtocolUnmarshal(c, env)

SpecDecode == InitRoom /\ [][NextDecode]_vars

\* ------------------------------------------ the encrypt and the room readers
NextRead ==
    \/ \E c \in Conns : Encrypt_BindSocketConnection(c, "base")
    \/ Call_Init_Process(TRUE, ScalarBaseMult(MaxKey), MaxSalt, MaxSession, MaxKey)
    \/ \E c \in Conns : Encrypt_ReadLock(c)
    \/ \E c \in Conns, env \in Envelopes, readErr \in BOOLEAN :
          Encrypt_ReadReturn(c, env, readErr)
    \/ \E c \in Conns : Room_BindSocketConnection(c)
    \/ \E c \in Conns, env \in RoomEnvelopes, readErr \in BOOLEAN :
          Room_Read(c, env, readErr)

SpecRead == Init /\ [][NextRead]_vars

\* ------------------------------- handshake between two encrypt.Interceptors
\* initialiseKeyExchange called with Mutex free; k, s, sid are drawn from
\* rand.Reader. SERVER_ENCRYPT_PRIV_KEY is the key ServerPublicKey verifies.
initialiseKeyExchange(st, k, s, sid) ==
    IF ~st.exists THEN Outcome(st, "connection not registered", "", "")
    ELSE WriteHeld(SetSessionID([st EXCEPT !.privKey = k, !.salt = s], sid),
                   ProtocolInit,
                   "initialiseKeyExchange: state.writer.Write: Mutex.Lock")

\* the message a handler hands to state.writer, as the value it built
Built(kind, id, st) ==
    CASE kind = ProtocolInit ->
            Payload(kind, id, ScalarBaseMult(st.privKey), TRUE, st.salt,
                    st.sessionID, "", NoCt)
      [] kind = ProtocolResponse ->
            Payload(kind, id, ScalarBaseMult(st.privKey), FALSE, 0, 0, "", NoCt)
      [] OTHER -> Payload(kind, id, ZeroPub, FALSE, 0, 0, "", NoCt)

HsUnchanged == UNCHANGED <<isServer, states, mutex, stuck, last, aux, hist, chain>>

HsStep(x, out) ==
    hs' = [hs EXCEPT
             !.st[x] = out.st,
             !.flight = IF out.emit = "" THEN NoFlight
                        ELSE [to |-> Other(x), p |-> Built(out.emit, hs.id[x], out.st)],
             !.dead = IF out.block = "" THEN @ ELSE @ \cup {x}]

\* end x starts an exchange
HS_initialiseKeyExchange(x, k, s, sid) ==
    /\ hs.flight = NoFlight
    /\ x \notin hs.dead
    /\ HsStep(x, initialiseKeyExchange(hs.st[x], k, s, sid))
    /\ HsUnchanged

\* the link hands the message in flight, as built, to the other end's handler
HS_Process(k) ==
    /\ hs.flight # NoFlight
    /\ hs.flight.to \notin hs.dead
    /\ LET y == hs.flight.to
       IN  HsStep(y, Process(FALSE, hs.id[y], hs.st[y], hs.flight.p, FALSE, k))
    /\ HsUnchanged

\* the link loses the message in flight
HS_Drop ==
    /\ hs.flight # NoFlight
    /\ hs' = [hs EXCEPT !.flight = NoFlight]
    /\ HsUnchanged

InitHS ==
    /\ isServer = FALSE
    /\ InitEncrypt
    /\ aux = NoAux
    /\ \E idB \in IDs : hs = NewHs(idB)
    /\ chain = NoChain

NextHS ==
    \/ \E x \in Ends, k \in 1..MaxKey, s \in 1..MaxSalt, sid \in 1..MaxSession :
          HS_initialiseKeyExchange(x, k, s, sid)
    \/ \E k \in 1..MaxKey : HS_Process(k)
    \/ HS_Drop

SpecHS == InitHS /\ [][NextHS]_vars

\* ------------------------------------------------------ Registry and Chain
\* factory.NewInterceptor: the interceptor of the factory's package
NewInterceptor(factory) == factory

\* flattenErrs: the non-nil errors, in order; <<>> stands for nil
flattenErrs(errs) == SelectSeq(errs, LAMBDA e : e # "")

\* one entry of the record of calls a Chain method made
ChainCall(p, i, w, r) == [i |-> p, kind |-> i, w |-> w, r |-> r]

\* a chain method starts: the record of the previous one is dropped
ChainOp(op, c) ==
    [chain EXCEPT !.op = op, !.conn = c, !.calls = <<>>, !.order = <<>>,
                  !.returned = <<>>, !.ret = <<>>]

RECURSIVE ChainBindFrom(_, _, _, _, _, _)
\* the loop of Chain.BindSocketConnection from interceptor p on: it returns at
\* the first error
ChainBindFrom(ch, c, failAt, w, r, p) ==
    IF p > Len(ch.interceptors) THEN ch
    ELSE LET i == ch.interceptors[p]
             err == Bind_err(i, ch.bound[p], c, p = failAt)
             ch1 == [ch EXCEPT !.calls = Append(@, ChainCall(p, i, w, r)),
                               !.returned = Append(@, err),
                               !.bound[p] = IF err = "" THEN @ \cup {c} ELSE @]
         IN  IF err # "" THEN [ch1 EXCEPT !.ret = <<err>>]
             ELSE ChainBindFrom(ch1, c, failAt, w, r, p + 1)

RECURSIVE ChainUnBindFrom(_, _, _, _)
\* the loop of Chain.UnBindSocketConnection from interceptor p on.
\* pingpong: i.states[connection].cancel() panics for a connection it holds
\* no state for; log: the entry stays when state.cleanup fails
ChainUnBindFrom(ch, c, closeOK, p) ==
    IF p > Len(ch.interceptors) THEN ch
    ELSE LET i == ch.interceptors[p]
             held == ch.bound[p]
             ch1 == [ch EXCEPT !.calls = Append(@, ChainCall(p, i, <<>>, <<>>))]
         IN  IF i = "pingpong" /\ c \notin held
             THEN [ch1 EXCEPT !.panicked = TRUE]
             ELSE ChainUnBindFrom(
                      [ch1 EXCEPT !.bound[p] =
                          IF i = "log" /\ c \in held /\ ~closeOK THEN @ ELSE @ \ {c}],
                      c, closeOK, p + 1)

RECURSIVE ChainCloseFrom(_, _, _)
\* the loop of Chain.Close from interceptor p on: errs = append(errs, I.Close())
ChainCloseFrom(ch, bad, p) ==
    IF p > Len(ch.interceptors) THEN [ch EXCEPT !.ret = flattenErrs(ch.returned)]
    ELSE LET i == ch.interceptors[p]
             held == ch.bound[p]
         IN  ChainCloseFrom(
                 [ch EXCEPT !.calls = Append(@, ChainCall(p, i, <<>>, <<>>)),
                            !.returned = Append(@, Close_err(i, held, p \in bad)),
                            !.bound[p] = Close_held(i, held, p \in bad)],
                 bad, p + 1)

ChainUnchanged ==
    /\ ~chain.panicked
    /\ UNCHANGED <<isServer, states, mutex, stuck, last, aux, hist, hs>>

\* Registry.Register; each package's factory is registered at most once
Registry_Register(factory) ==
    /\ chain.built = ""
    /\ Len(chain.factories) < MaxChain
    /\ \A p \in 1..Len(chain.factories) : chain.factories[p] # factory
    /\ chain' = [chain EXCEPT !.factories = Register(@, factory),
                              !.registered = Append(@, factory)]
    /\ ChainUnchanged

\* Registry.Build; failAt: the factory whose NewInterceptor fails, 0 for none
Registry_Build(failAt) ==
    /\ chain.built = ""
    /\ LET n == Len(chain.factories)
       IN  chain' =
             IF n = 0 THEN [chain EXCEPT !.built = "noop"]
             ELSE IF failAt \in 1..n THEN [chain EXCEPT !.built = "error"]
             ELSE [chain EXCEPT
                     !.built = "chain",
                     !.interceptors = [p \in 1..n |-> NewInterceptor(chain.factories[p])],
                     !.bound = [p \in 1..n |-> {}]]
    /\ ChainUnchanged

\* the Interceptor Build returned is in use
ChainBuilt == chain.built \in {"chain", "noop"}

\* Chain.BindSocketConnection(c, writer, reader); failAt: the interceptor whose
\* factory call inside Bind fails, 0 for none
ChainBindSocketConnection(c, failAt) ==
    /\ ChainBuilt
    /\ chain' = ChainBindFrom(ChainOp("Bind", c), c, failAt,
                    ChainInterceptSocketWriter(chain.interceptors, <<"writer">>),
                    ChainInterceptSocketReader(chain.interceptors, <<"reader">>), 1)
    /\ ChainUnchanged

\* Chain.UnBindSocketConnection(c)
ChainUnBindSocketConnection(c, closeOK) ==
    /\ ChainBuilt
    /\ chain' = ChainUnBindFrom(ChainOp("UnBind", c), c, closeOK, 1)
    /\ ChainUnchanged

\* Chain.Close(); bad: the interceptors whose resources fail to close
ChainClose(bad) ==
    /\ ChainBuilt
    /\ chain' = ChainCloseFrom(ChainOp("Close", ""), bad, 1)
    /\ ChainUnchanged

\* a Write on Chain.InterceptSocketWriter(writer)
ChainWrite ==
    /\ ChainBuilt
    /\ chain' = [ChainOp("Write", Link) EXCEPT !.order =
                    WriterFunc_Write(
                        ChainInterceptSocketWriter(chain.interceptors, <<"writer">>))]
    /\ ChainUnchanged

\* a Read on Chain.InterceptSocketReader(reader)
ChainRead ==
    /\ ChainBuilt
    /\ chain' = [ChainOp("Read", Link) EXCEPT !.order =
                    ReaderFunc_Read(
                        ChainInterceptSocketReader(chain.interceptors, <<"reader">>))]
    /\ ChainUnchanged

NextChain ==
    \/ \E factory \in Interceptors : Registry_Register(factory)
    \/ \E failAt \in 0..MaxChain : Registry_Build(failAt)
    \/ \E c \in Conns, failAt \in 0..MaxChain : ChainBindSocketConnection(c, failAt)
    \/ \E c \in Conns, closeOK \in BOOLEAN : ChainUnBindSocketConnection(c, closeOK)
    \/ \E bad \in SUBSET (1..MaxChain) : ChainClose(bad)
    \/ ChainWrite
    \/ ChainRead

SpecChain == Init /\ [][NextChain]_vars

\* ------------------------------------------------------------------ claims
\* I holds a state entry for c
Has(i, c) == IF i = "encrypt" THEN states[c].exists ELSE c \in aux[i]

\* C1: every stateful interceptor holds a state entry for a connection
\* exactly when a Bind of it completed and no UnBind of it (nor Close) was
\* called since.
C1_EntryIffBound ==
    \A i \in Interceptors, c \in Conns : Has(i, c) <=> hist[i][c]

\* C2: once Init(c) is called on a bound connection, it eventually returns
\* nil with the connection's encryptor Ready.
C2_InitCompletes ==
    \A c \in Conns :
        (last.op = "Init" /\ last.conn = c /\ states[c].exists)
        ~> (last.op = "Init" /\ last.conn = c /\ last.ret
            /\ last.out.err = "" /\ Ready(states[c]))

\* C3: Init(c) always returns; no goroutine stays blocked inside Init.
C3_InitReturns == \A b \in stuck : b.op # "Init"

\* C4: an envelope written through the encrypt writer while the connection
\* is Ready is forwarded only as an encrypt-message sealed under the current
\* sessionId.
C4_ReadyWritesSealed ==
    (last.op = "Write" /\ Ready(states[last.conn]))
    => /\ last.out.fwd.kind = ProtocolMessage
       /\ last.out.fwd.sealed
       /\ last.out.fwd.ad = states[last.conn].sessionID

\* the call l ran Init.Process on a payload whose signature does not verify
BadInitProcessed(l) ==
    /\ l.in.kind = ProtocolInit
    /\ ~l.in.sigOK
    /\ l.op = "Process" \/ (l.op = "Read" /\ l.out.up = "payload")

\* C5: an Init whose signature does not verify is rejected with the
\* signature error, the per-connection states stay as they were, and nothing
\* (no InitResponse) is handed to the writer.
C5_BadSignatureRejected ==
    [][ BadInitProcessed(last')
        => /\ last'.out.procErr = "signature verification failed"
           /\ states' = states
           /\ last'.out.fwd = NoFrame ]_vars

\* C5 witness: Init.Process was called with a bad signature on a bound
\* connection that already holds keys and a session id.
C5_Witness ==
    /\ BadInitProcessed(last)
    /\ last.op = "Process"
    /\ Ready(states[last.conn])

\* C6: an inbound encrypt-message that fails to open on a Ready connection is
\* dropped with an error and is not handed to the layer above.
C6_FailedOpenDropped ==
    (/\ last.op = "Read"
     /\ last.in.kind = ProtocolMessage
     /\ Ready(states[last.conn])
     /\ last.out.procErr # "")
    => (last.out.up = "" /\ last.out.err # "")

\* C7: when the initiator has processed the InitResponse (its InitDone is in
\* flight), its encryption key is the responder's decryption key and its
\* decryption key is the responder's encryption key.
C7_KeysMirrored ==
    hs.flight.p.kind = ProtocolInitDone
    => LET r == hs.flight.to
           i == Other(r)
       IN  /\ hs.st[i].encKey = hs.st[r].decKey
           /\ hs.st[i].decKey = hs.st[r].encKey

\* C8: signalling initDone never blocks the signaller: no goroutine stays
\* blocked at a send on state.initDone.
C8_SignalNeverBlocks ==
    \A b \in stuck : b.at # "InitDone.Process: state.initDone <- struct{}{}"

\* C9: a handshake envelope handed to state.writer reaches the transport,
\* unsealed and with its own protocol tag.
C9_HandshakeTagged ==
    /\ last.out.fwd.kind \in {ProtocolInit, ProtocolResponse, ProtocolInitDone}
       => (last.out.fwd.tag = last.out.fwd.kind /\ ~last.out.fwd.sealed)
    /\ \A b \in stuck :
          b.at \notin {"Init.Process: state.writer.Write: Mutex.Lock",
                       "InitResponse.Process: state.writer.Write: Mutex.Lock"}

\* an encrypt-message sealed by the peer under st's decryption key with
\* associated data ad
SealedFor(st, ad) ==
    Payload(ProtocolMessage, PeerID, ZeroPub, FALSE, 0, 0, "n",
            [key |-> st.decKey, ad |-> ad, intact |-> TRUE])

\* the call l processed an UpdateSession carrying a session id, without error,
\* on a connection that holds keys
SessionUpdated(l) ==
    /\ l.in.kind = ProtocolUpdateSession
    /\ l.in.sid # 0
    /\ l.op = "Process" \/ (l.op = "Read" /\ l.out.up = "payload")
    /\ l.out.procErr = ""
    /\ states[l.conn].decKey # NoKey

\* C10: after UpdateSession{s} is processed, messages sealed with s open,
\* messages sealed with any other session id do not, and the keys are the
\* same as before.
C10_SessionRotated ==
    [][ SessionUpdated(last')
        => LET c == last'.conn
               s == last'.in.sid
           IN  /\ Decrypt(states'[c], SealedFor(states'[c], s)) = ""
               /\ \A o \in (0..MaxSession) \ {s} :
                     Decrypt(states'[c], SealedFor(states'[c], o)) # ""
               /\ states'[c].encKey = states[c].encKey
               /\ states'[c].decKey = states[c].decKey ]_vars

RECURSIVE NestedWriter(_, _)
\* In-1.wrap(... I0.wrap(b) ...) for the interceptors [I0, ..., In-1]
NestedWriter(is, b) ==
    IF is = <<>> THEN b
    ELSE InterceptSocketWriter(is[Len(is)], NestedWriter(SubSeq(is, 1, Len(is) - 1), b))

RECURSIVE NestedReader(_, _)
NestedReader(is, b) ==
    IF is = <<>> THEN b
    ELSE InterceptSocketReader(is[Len(is)], NestedReader(SubSeq(is, 1, Len(is) - 1), b))

\* x comes before y in the sequence q
Before(q, x, y) ==
    \E a, b \in 1..Len(q) : a < b /\ q[a] = x /\ q[b] = y

\* C11: a built chain lists the interceptors of the factories in the order
\* they were registered, and Chain.BindSocketConnection calls Bind on them in
\* that order (up to the first error), each time with the writer and reader
\* wrapped by every interceptor of the chain.
C11_BindInRegistrationOrder ==
    /\ chain.built = "chain" => chain.interceptors = chain.registered
    /\ chain.op = "Bind" =>
          /\ \A k \in 1..Len(chain.calls) :
                /\ chain.calls[k].i = k
                /\ chain.calls[k].kind = chain.registered[k]
                /\ chain.calls[k].w = NestedWriter(chain.registered, <<"writer">>)
                /\ chain.calls[k].r = NestedReader(chain.registered, <<"reader">>)
                /\ k < Len(chain.calls) => chain.returned[k] = ""
          /\ chain.ret = <<>> => Len(chain.calls) = Len(chain.registered)

\* C11 witness: a chain of at least two interceptors was bound without error.
C11_Witness ==
    /\ chain.op = "Bind"
    /\ chain.ret = <<>>
    /\ Len(chain.calls) >= 2
    /\ chain.calls[1].kind # chain.calls[2].kind

\* C12: a Write on Chain.InterceptSocketWriter(b) runs the wrappers from the
\* last interceptor to the first and b last; a Read on
\* Chain.InterceptSocketReader(r) reads r first and then lets the interceptors
\* work on the message from the first to the last.
C12_WrapOrder ==
    LET is == chain.interceptors
        n == Len(chain.order)
    IN  /\ chain.op = "Write" =>
              /\ chain.order = WriterFunc_Write(NestedWriter(is, <<"writer">>))
              /\ chain.order[n] = "writer"
              /\ \A p, q \in 1..Len(is) :
                    (p < q /\ is[p] # "room" /\ is[q] # "room")
                    => Before(chain.order, is[q], is[p])
        /\ chain.op = "Read" =>
              /\ chain.order = ReaderFunc_Read(NestedReader(is, <<"reader">>))
              /\ chain.order[1] = "reader"
              /\ \A p, q \in 1..Len(is) :
                    p < q => Before(chain.order, is[p], is[q])

\* C12 witness: a Write went through two writer wrappers of a built chain.
C12_Witness ==
    /\ chain.op = "Write"
    /\ Len(chain.order) >= 3
    /\ chain.order[1] # chain.order[2]

\* C13: Chain.Close and Chain.UnBindSocketConnection call every interceptor of
\* the chain exactly once, and Chain.Close returns exactly the non-nil errors
\* the interceptors returned (nil when there are none).
C13_CloseAndUnBindReachAll ==
    chain.op \in {"Close", "UnBind"} =>
        /\ \A p \in 1..Len(chain.interceptors) :
              Cardinality({k \in 1..Len(chain.calls) : chain.calls[k].i = p}) = 1
        /\ chain.op = "Close" =>
              /\ Len(chain.ret) =
                    Cardinality({k \in 1..Len(chain.returned) : chain.returned[k] # ""})
              /\ \A j \in 1..Len(chain.ret) : chain.ret[j] # ""

\* the name of each interceptor's lifecycle calls in the call record
BindOp == [encrypt |-> "encrypt.Bind", room |-> "room.Bind",
           pingpong |-> "pingpong.Bind", log |-> "log.Bind"]
UnBindOp == [encrypt |-> "encrypt.UnBind", room |-> "room.UnBind",
             pingpong |-> "pingpong.UnBind", log |-> "log.UnBind"]
CloseOp == [encrypt |-> "encrypt.Close", room |-> "room.Close",
            pingpong |-> "pingpong.Close", log |-> "log.Close"]

\* the interceptors with a state entry per connection that C14 - C16 name
Stateful == {"encrypt", "room", "pingpong"}

\* C14: BindSocketConnection(c) on an interceptor that already holds an entry
\* for c returns an error and changes no entry of any connection.
C14_RebindRejected ==
    [][ \A i \in Stateful :
           (last'.op = BindOp[i] /\ Has(i, last'.conn))
           => /\ last'.out.err # ""
              /\ states' = states
              /\ aux' = aux ]_vars

\* C14 witness: a Bind was refused for a connection that is bound, while the
\* same interceptor holds an entry for another connection too.
C14_Witness ==
    \E i \in Stateful :
        /\ last.op = BindOp[i]
        /\ last.out.err = "connection already exists"
        /\ \A c \in Conns : Has(i, c)

\* C15: UnBindSocketConnection(c) for a connection the interceptor holds no
\* entry for returns normally and changes no interceptor state.
C15_UnBindUnboundSafe ==
    [][ \A i \in Stateful :
           (last'.op = UnBindOp[i] /\ ~Has(i, last'.conn))
           => /\ last'.ret
              /\ ~aux'.crashed
              /\ states' = states
              /\ aux' = aux ]_vars

PassedThrough(l) ==
    /\ l.ret
    /\ l.out.err # "read failed"
    /\ \/ l.op = "Read" /\ (l.in.kind \notin protocolMap \/ ~states[l.conn].exists)
       \/ l.op = "room.Read" /\ (l.in.kind = "foreign" \/ l.conn \notin aux.room)

C18_RoomDeadlockFree ==
    \A b \in stuck : b.op \notin {"room.Read", "room.Process"}

\* the call l processed a valid JoinRoom on a registered connection that is
\* not yet a participant of the room r, which exists
JoinProcessed(l, r) ==
    /\ l.op = "room.Process"
    /\ l.in.kind = JoinRoomSubType
    /\ l.in.ok
    /\ l.conn \in aux.room
    /\ aux.rooms[r].exists
    /\ l.conn \notin aux.rooms[r].participants

\* C19: on a room with a non-empty allow-list, JoinRoom from an id on the list
\* returns nil and makes the sender a participant; from an id not on the list
\* it fails with "participant not allowed" and the participants stay the same.
C19_AllowListEnforced ==
    [][ \A r \in RoomIDs :
           (JoinProcessed(last', r) /\ aux.rooms[r].allowed # {})
           => IF aux'.roomId[last'.conn] \in aux.rooms[r].allowed
              THEN /\ last'.ret
                   /\ last'.out.err = ""
                   /\ last'.conn \in aux'.rooms[r].participants
              ELSE /\ last'.ret
                   /\ last'.out.err = "participant not allowed"
                   /\ aux'.rooms[r].participants = aux.rooms[r].participants ]_vars

\* C20: on a room with an empty allow-list, JoinRoom returns nil for every
\* sender id.
C20_EmptyAllowListOpen ==
    [][ \A r \in RoomIDs :
           (JoinProcessed(last', r) /\ aux.rooms[r].allowed = {})
           => (last'.ret => last'.out.err = "") ]_vars

\* the call l processed a valid payload of sub-type sub on a registered
\* connection, for the room r, which exists
RoomCall(l, sub, r) ==
    /\ l.op = "room.Process"
    /\ l.in.kind = sub
    /\ l.in.ok
    /\ l.conn \in aux.room
    /\ aux.rooms[r].exists

\* the ids of the participants of room r
ParticipantIds(a, r) == {room_id(a, r, c) : c \in a.rooms[r].participants}

\* no two participant entries of a room carry the same id
NoDuplicateIds(a) ==
    \A r \in RoomIDs : \A c, d \in a.rooms[r].participants :
        c # d => room_id(a, r, c) # room_id(a, r, d)

\* C21: no room ever holds the same participant id twice: a JoinRoom, or a
\* CreateRoom for a room that exists, by an id that already is a participant
\* is rejected with an error and leaves the room as it was, on whichever
\* connection it arrives.
C21_NoDuplicateParticipant ==
    [][ /\ NoDuplicateIds(aux')
        /\ \A r \in RoomIDs, sub \in {JoinRoomSubType, CreateRoomSubType} :
              (RoomCall(last', sub, r)
                  /\ aux'.roomId[last'.conn] \in ParticipantIds(aux, r))
              => /\ last'.ret
                 /\ last'.out.err # ""
                 /\ aux'.rooms[r] = aux.rooms[r] ]_vars

\* C22: a ChatSource that arrives on a connection which is not a participant
\* of the room is answered with an error and no ChatDest is written to anyone.
C22_ChatOnlyFromParticipants ==
    [][ \A r \in RoomIDs :
           (RoomCall(last', ChatSourceRoomSubType, r)
               /\ last'.conn \notin aux.rooms[r].participants)
           => /\ last'.ret
              /\ last'.out.err # ""
              /\ aux'.sent = {} ]_vars

\* the envelopes written: sub-type and the connection written to
Written(a) == {<<s.kind, s.conns>> : s \in a.sent}

\* C23: a broadcast ChatSource (no recipient named) from a participant writes
\* one ChatDest to each other participant, none to the sender, and one success
\* envelope to the sender, and nothing else.
C23_BroadcastFanOut ==
    [][ \A r \in RoomIDs :
           (RoomCall(last', ChatSourceRoomSubType, r)
               /\ last'.in.to = {}
               /\ last'.conn \in aux.rooms[r].participants
               /\ NoDuplicateIds(aux'))
           => /\ last'.ret
              /\ Written(aux') =
                    {<<ChatDestRoomSubType, {d}>> :
                        d \in aux.rooms[r].participants \ {last'.conn}}
                    \cup {<<SuccessRoomSubType, {last'.conn}>>} ]_vars

\* the recipient ids a ChatSource with RecipientID `to` addresses in room r
Addressed(a, r, to) == IF to = {} THEN a.rooms[r].allowed ELSE to

\* C24: in the fan-out of a ChatSource a failure for one recipient does not
\* end the loop: every addressed id that names a participant is written to,
\* and the error returned gathers one error for each addressed id that names
\* no participant or whose write failed.
C24_FanOutNotAborted ==
    [][ \A r \in RoomIDs :
           RoomCall(last', ChatSourceRoomSubType, r)
           => LET ids == Addressed(aux, r, last'.in.to)
                  known == ids \cap ParticipantIds(aux', r)
              IN  /\ last'.ret
                  /\ {s.to : s \in aux'.sent} = known
                  /\ {e[1] : e \in aux'.errs} =
                        (ids \ known) \cup {s.to : s \in {x \in aux'.sent : ~x.ok}}
                  /\ (last'.out.err = "") <=> (aux'.errs = {}) ]_vars

\* C24 witness: a ChatSource returned an error for one recipient while another
\* recipient was written to.
C24_Witness ==
    /\ last.op = "room.Process"
    /\ last.in.kind = ChatSourceRoomSubType
    /\ last.out.err # ""
    /\ \E s \in aux.sent : s.ok /\ \E e \in aux.errs : e[1] # s.to

\* C25: a JoinRoom by an id on the allow-list returns nil, makes the sender a
\* participant, writes one ClientJoined to each participant that was in the
\* room before and none to the sender, and writes one success envelope to the
\* sender.
C25_JoinAnnounced ==
    [][ \A r \in RoomIDs :
           (JoinProcessed(last', r)
               /\ aux'.roomId[last'.conn] \in aux.rooms[r].allowed)
           => /\ last'.ret
              /\ last'.out.err = ""
              /\ aux'.rooms[r].participants =
                    aux.rooms[r].participants \cup {last'.conn}
              /\ Written(aux') =
                    {<<ClientJoinedRoomSubType, {d}>> : d \in aux.rooms[r].participants}
                    \cup {<<SuccessRoomSubType, {last'.conn}>>} ]_vars

\* C26: when the owner of a room sends LeaveRoom the call returns, the owner
\* is no participant any more, the room has no owner, and the room stays
\* registered with its other participants, its allow-list and its ttl.
C26_OwnerLeaves ==
    [][ \A r \in RoomIDs :
           (RoomCall(last', LeaveRoomSubType, r)
               /\ aux.rooms[r].owner = last'.conn
               /\ last'.conn \in aux.rooms[r].participants)
           => /\ last'.ret
              /\ aux'.rooms[r] =
                    [aux.rooms[r] EXCEPT !.owner = "",
                                         !.participants = @ \ {last'.conn}] ]_vars

\* C28: UnBindSocketConnection(c) on the room interceptor deletes the entry of
\* c, clears the owner of every room c owns, and leaves every room registered
\* with its context, its participants (c among them), allow-list and ttl.
C28_UnBindClearsOwner ==
    [][ last'.op = "room.UnBind"
        => /\ last'.ret
           /\ last'.conn \notin aux'.room
           /\ aux'.ctx = aux.ctx
           /\ \A r \in RoomIDs :
                 /\ aux'.rooms[r].exists = aux.rooms[r].exists
                 /\ aux'.rooms[r].participants = aux.rooms[r].participants
                 /\ aux'.rooms[r].allowed = aux.rooms[r].allowed
                 /\ aux'.rooms[r].ttl = aux.rooms[r].ttl
                 /\ aux'.rooms[r].owner =
                       IF aux.rooms[r].owner = last'.conn THEN ""
                       ELSE aux.rooms[r].owner ]_vars

\* C29: a CreateRoom for a room id that exists keeps the room's owner,
\* allow-list, ttl and participants and adds the sender under the join rules
\* (added when its id is allowed and its connection is no participant yet,
\* refused otherwise); a CreateRoom for a new room id that returns nil leaves
\* a room with the sender as owner and only participant.
C29_CreateExistingJoins ==
    [][ \A r \in RoomIDs :
           /\ RoomCall(last', CreateRoomSubType, r)
              => LET c == last'.conn
                     admitted == /\ aux'.roomId[c] \in aux.rooms[r].allowed
                                 /\ c \notin aux.rooms[r].participants
                 IN  /\ last'.ret
                     /\ aux'.rooms[r].owner = aux.rooms[r].owner
                     /\ aux'.rooms[r].allowed = aux.rooms[r].allowed
                     /\ aux'.rooms[r].ttl = aux.rooms[r].ttl
                     /\ (last'.out.err = "") <=> admitted
                     /\ aux'.rooms[r].participants =
                           IF admitted THEN aux.rooms[r].participants \cup {c}
                           ELSE aux.rooms[r].participants
           /\ (/\ last'.op = "room.Process"
               /\ last'.in.kind = CreateRoomSubType
               /\ ~aux.rooms[r].exists
               /\ last'.ret
               /\ last'.out.err = "")
              => /\ aux'.rooms[r].exists
                 /\ aux'.rooms[r].owner = last'.conn
                 /\ aux'.rooms[r].participants = {last'.conn} ]_vars

\* C27: every room is closed by its ttl: once the room is as old as its
\* CloseTime, its context is cancelled, whether its owner is still bound or not.
C27_TTLCloses ==
    \A r \in RoomIDs :
        (aux.rooms[r].exists /\ aux.rooms[r].age >= aux.rooms[r].ttl)
        ~> (<<"room", r>> \notin aux.ctx)

\* C30: every read or write of an interceptor's connection-to-state map is made
\* by a goroutine that holds the interceptor's Mutex at that moment, the ping
\* loop and the Process handlers among them.
C30_MapAccessUnderLock ==
    aux.access.by # NoThread => aux.access.holder = aux.access.by

\* the value of the Message connection c was handed by its latest decode
Deref(a, c) == a.registry[a.decoded[c].ref]

\* C31: decoding an inbound envelope writes to no entry of the protocol
\* registry nor to the object an entry points to, and the payload decoded for
\* another connection reads afterwards as it did before.
C31_RegistryReadOnly ==
    [][ last'.op = "ProtocolUnmarshal"
        => /\ aux'.registry = aux.registry
           /\ \A d \in Conns \ {last'.conn} :
                 aux.decoded[d].ref # ""
                 => /\ aux'.decoded[d] = aux.decoded[d]
                    /\ Deref(aux', d) = aux.decoded[d].p ]_vars

\* C32: once UnBindSocketConnection(c) or Close has returned, the ping loop of
\* c writes no further Ping on c and does not fail: a Ping is written only on
\* a connection whose context is live.
C32_PingLoopStops ==
    last.op = "pingpong.loop"
    => /\ last.ret
       /\ (last.out.fwd.kind = "ping" /\ last.out.err = "")
          => <<"pingpong", last.conn>> \in aux.ctx

\* C33: for every maxHistory, the default included, the stored ping records
\* and the stored pong records each number at most maxHistory.
C33_HistoryBounded ==
    /\ Len(aux.pings) <= aux.max
    /\ Len(aux.pongs) <= aux.max

\* the serialised fields of the payloads p and q agree
SameFields(p, q) == p.id = q.id /\ p.ts = q.ts /\ p.pts = q.pts

\* C34: unmarshalling the bytes of a marshalled Ping or Pong gives back its
\* MessageID and timestamps, and CreateMessage(sender, receiver, p) gives an
\* envelope whose header carries sender and receiver and whose payload bytes
\* unmarshal back to p.
C34_MarshalRoundTrip ==
    /\ last.op = "Marshal.Unmarshal" => SameFields(aux.codec.q, aux.codec.p)
    /\ last.op = "CreateMessage"
       => /\ aux.codec.msg.sender = aux.codec.args[1]
          /\ aux.codec.msg.receiver = aux.codec.args[2]
          /\ SameFields(aux.codec.back, aux.codec.p)

\* the envelope a handshake handler answers with
Reply(kind) == IF kind = ProtocolInit THEN ProtocolResponse ELSE ProtocolInitDone

\* C35: a handler that answers from inside its own inbound processing through
\* the full-stack writer it was bound with (Init.Process with InitResponse,
\* InitResponse.Process with InitDone) returns, and when it returns nil its
\* answer has passed the interceptor's own writer wrapper and reached the
\* transport.
C35_EmitFromProcessReturns ==
    [][ (/\ last'.op = "Process"
         /\ last'.in.kind \in {ProtocolInit, ProtocolResponse}
         /\ states[last'.conn].exists
         /\ states[last'.conn].writer = "chain")
        => /\ last'.ret
           /\ last'.out.err = "" => last'.out.fwd.kind = Reply(last'.in.kind) ]_vars

\* C36: while the reader of a connection is blocked in the inner Read, waiting
\* for inbound data, a write through the same interceptor on any connection
\* can run to completion.
C36_WriteWhileReadWaits ==
    \A c, d \in Conns :
        mutex = Reading(c) => ENABLED Encrypt_Write(d, TRUE)

\* the interceptors of the chain ch that hold a state entry for c
Holders(ch, c) == {p \in 1..Len(ch.bound) : c \in ch.bound[p]}

\* C37: Chain.BindSocketConnection(c) for a connection no interceptor of the
\* chain holds is all-or-nothing: when it returns an error no interceptor
\* holds an entry for c, when it returns nil every interceptor holds one.
C37_BindAllOrNothing ==
    [][ (chain'.op = "Bind" /\ Holders(chain, chain'.conn) = {})
        => IF chain'.ret # <<>>
           THEN Holders(chain', chain'.conn) = {}
           ELSE Holders(chain', chain'.conn) = 1..Len(chain'.interceptors) ]_vars

\* C38: a connection whose encryptor is Ready stays Ready with the same
\* encryption and decryption keys through every call other than UnBind and
\* Close: no inbound Init, InitResponse or UpdateSession replaces the keys or
\* ends Ready, and the session id only ever changes to a non-zero value.
C38_ReadyIsStable ==
    [][ \A c \in Conns :
           (Ready(states[c]) /\ last'.op \notin {"encrypt.UnBind", "encrypt.Close"})
           => /\ Ready(states'[c])
              /\ states'[c].encKey = states[c].encKey
              /\ states'[c].decKey = states[c].decKey ]_vars

\* C39: the id recorded for a participant of a room stays the one it joined
\* under for as long as it is a participant: no envelope received on its
\* connection with another header SenderID changes it.
C39_ParticipantIdFixed ==
    [][ \A r \in RoomIDs :
           \A c \in aux.rooms[r].participants \cap aux'.rooms[r].participants :
              room_id(aux', r, c) = room_id(aux, r, c) ]_vars

\* the ttl of the stored room r has run out
Expired(a, r) == a.rooms[r].exists /\ a.rooms[r].age >= a.rooms[r].ttl

\* C40: a room whose ttl has run out is no longer addressable: a JoinRoom for
\* it fails because the room does not exist, and a CreateRoom for its id makes
\* a fresh room with the sender as owner and only participant.
C40_ExpiredRoomGone ==
    [][ \A r \in RoomIDs :
           (/\ Expired(aux, r)
            /\ last'.op = "room.Process"
            /\ last'.in.ok
            /\ last'.conn \in aux.room)
           => /\ last'.in.kind = JoinRoomSubType
                 => (last'.ret /\ last'.out.err = "room does not exists")
              /\ last'.in.kind = CreateRoomSubType
                 => /\ last'.ret
                    /\ last'.out.err = ""
                    /\ aux'.rooms[r].owner = last'.conn
                    /\ aux'.rooms[r].participants = {last'.conn}
                    /\ aux'.rooms[r].age = 0 ]_vars
====
